---- MODULE Spec2Model ----
(***************************************************************************)
(* Model of the query compilation engine of sqlite-rest (src/server.go,     *)
(* queryCompiler): an HTTP request descriptor is compiled to SQL text plus  *)
(* an ordered list of bound values.  Text is modelled as TLA+ strings and   *)
(* taken apart character by character, as the Go code does with the         *)
(* strings package.                                                         *)
(***************************************************************************)
EXTENDS Integers, Sequences, FiniteSets, TLC

(***************************************************************************)
(* Bounds of the model.                                                     *)
(***************************************************************************)
\* width of the machine integer standing for Go's int64 (TLC's own integers
\* are 32 bits wide, so the width is scaled down; all arithmetic wraps at it)
IntBits == 8
\* longest raw filter text enumerated exhaustively over RawAlphabet
MaxRawLen == 4
\* longest text between the parentheses of an `in` filter
MaxInLen == 5
\* most query parameters in one request
MaxParams == 2
\* the most parts, separated by ".", of a token of the order parameter
MaxOrderParts == 4

(***************************************************************************)
(* Go runtime and standard library, as far as the compiler relies on them.  *)
(***************************************************************************)
RECURSIVE Pow2(_)
Pow2(n) == IF n = 0 THEN 1 ELSE 2 * Pow2(n - 1)

MaxInt64 == Pow2(IntBits - 1) - 1
MinInt64 == 0 - Pow2(IntBits - 1)

\* two's complement wrap-around of int64 arithmetic
WrapInt64(n) == ((n - MinInt64) % Pow2(IntBits)) + MinInt64

Ch(s, i) == SubSeq(s, i, i)

RECURSIVE IndexFrom(_, _, _)
IndexFrom(s, c, i) ==
    IF i > Len(s) THEN 0
    ELSE IF Ch(s, i) = c THEN i
    ELSE IndexFrom(s, c, i + 1)

\* strings.Index for a one-character separator; 0 when absent
Index(s, c) == IndexFrom(s, c, 1)

\* strings.Split(s, sep)
RECURSIVE Split(_, _)
Split(s, sep) ==
    LET i == Index(s, sep)
    IN  IF i = 0 THEN <<s>>
        ELSE <<SubSeq(s, 1, i - 1)>> \o Split(SubSeq(s, i + 1, Len(s)), sep)

\* strings.SplitN(s, sep, 2)
SplitN2(s, sep) ==
    LET i == Index(s, sep)
    IN  IF i = 0 THEN <<s>>
        ELSE <<SubSeq(s, 1, i - 1), SubSeq(s, i + 1, Len(s))>>

\* strings.Join(elems, sep)
RECURSIVE Join(_, _)
Join(elems, sep) ==
    IF Len(elems) = 0 THEN ""
    ELSE IF Len(elems) = 1 THEN elems[1]
    ELSE elems[1] \o sep \o Join(Tail(elems), sep)

\* strings.Repeat(s, count) for count >= 0 (a negative count panics; the
\* callers below decide that case before calling)
RECURSIVE Repeat(_, _)
Repeat(s, count) == IF count <= 0 THEN "" ELSE s \o Repeat(s, count - 1)

\* unicode.ToLower on the upper-case ASCII letters
UpperToLower ==
    ("A" :> "a") @@ ("B" :> "b") @@ ("C" :> "c") @@ ("D" :> "d") @@
    ("E" :> "e") @@ ("F" :> "f") @@ ("G" :> "g") @@ ("H" :> "h") @@
    ("I" :> "i") @@ ("J" :> "j") @@ ("K" :> "k") @@ ("L" :> "l") @@
    ("M" :> "m") @@ ("N" :> "n") @@ ("O" :> "o") @@ ("P" :> "p") @@
    ("Q" :> "q") @@ ("R" :> "r") @@ ("S" :> "s") @@ ("T" :> "t") @@
    ("U" :> "u") @@ ("V" :> "v") @@ ("W" :> "w") @@ ("X" :> "x") @@
    ("Y" :> "y") @@ ("Z" :> "z")

LowerChar(c) == IF c \in DOMAIN UpperToLower THEN UpperToLower[c] ELSE c

\* strings.ToLower
RECURSIVE ToLower(_)
ToLower(s) == IF s = "" THEN "" ELSE LowerChar(Head(s)) \o ToLower(Tail(s))

\* strings.TrimPrefix / strings.TrimSuffix for a one-character affix
TrimPrefix(s, c) == IF s # "" /\ Ch(s, 1) = c THEN Tail(s) ELSE s
TrimSuffix(s, c) ==
    IF s # "" /\ Ch(s, Len(s)) = c THEN SubSeq(s, 1, Len(s) - 1) ELSE s

DigitVal ==
    ("0" :> 0) @@ ("1" :> 1) @@ ("2" :> 2) @@ ("3" :> 3) @@ ("4" :> 4) @@
    ("5" :> 5) @@ ("6" :> 6) @@ ("7" :> 7) @@ ("8" :> 8) @@ ("9" :> 9)

IsDigit(c) == c \in DOMAIN DigitVal

RECURSIVE AllDigits(_)
AllDigits(s) == s = "" \/ (IsDigit(Head(s)) /\ AllDigits(Tail(s)))

RECURSIVE DigitsValue(_, _)
DigitsValue(s, acc) ==
    IF s = "" THEN acc ELSE DigitsValue(Tail(s), 10 * acc + DigitVal[Head(s)])

\* the range check of strconv.ParseInt for bitSize 64
parseIntRange(n) ==
    IF n > MaxInt64 \/ n < MinInt64 THEN [ok |-> FALSE, n |-> 0]
    ELSE [ok |-> TRUE, n |-> n]

\* the digits of strconv.ParseInt after the sign
parseIntDigits(digits, neg) ==
    IF digits = "" \/ ~AllDigits(digits) THEN [ok |-> FALSE, n |-> 0]
    ELSE parseIntRange(IF neg THEN 0 - DigitsValue(digits, 0)
                       ELSE DigitsValue(digits, 0))

\* strconv.ParseInt(s, 10, 64): optional sign, decimal digits, range check
ParseInt(s) ==
    IF s # "" /\ Head(s) \in {"-", "+"}
    THEN parseIntDigits(Tail(s), Head(s) = "-")
    ELSE parseIntDigits(s, FALSE)

\* fmt.Sprintf("%d", n)
FormatInt(n) == ToString(n)

(***************************************************************************)
(* Bound values ([]interface{}): each value carries its Go dynamic type.    *)
(***************************************************************************)
StrV(s)  == [t |-> "string", s |-> s]
NumV(n)  == [t |-> "float64", n |-> n]
BoolV(b) == [t |-> "bool", b |-> b]
NilV     == [t |-> "nil"]

(***************************************************************************)
(* Errors (ServerError values and plain errors).                            *)
(***************************************************************************)
NoErr == [kind |-> "", hint |-> "", status |-> 0]

ErrUnsupportedOperator(op) ==
    [kind |-> "UnsupportedOperator",
     hint |-> "operator \"" \o op \o "\" is unsupported",
     status |-> 400]

ErrBadRequest(hint) == [kind |-> "BadRequest", hint |-> hint, status |-> 400]

ErrUnsupportedMediaType ==
    [kind |-> "UnsupportedMediaType", hint |-> "", status |-> 415]

\* errors that are not ServerError values: json decode errors, strconv
\* errors, fmt.Errorf of the order clause
ErrUnauthorized(hint) ==
    [kind |-> "Unauthorized", hint |-> hint, status |-> 401]

ErrAccessRestricted ==
    [kind |-> "AccessRestricted", hint |-> "", status |-> 403]

PlainErr(kind, hint) == [kind |-> kind, hint |-> hint, status |-> 0]

\* dbServer.responseError: the status a handler answers an error with; only
\* a *ServerError carries a status of its own
responseError(err) == IF err.status # 0 THEN err.status ELSE 500

(***************************************************************************)
(* Filter clause parser.                                                    *)
(***************************************************************************)
\* CompiledQueryParameter
Clause(expr, values) == [Expr |-> expr, Values |-> values]

\* the three ways a Go call ends: values returned with a nil error, a
\* non-nil error, or a run-time panic
ParseOk(clauses) == [outcome |-> "ok", clauses |-> clauses, err |-> NoErr]
ParseErr(err)    == [outcome |-> "error", clauses |-> <<>>, err |-> err]
ParsePanic(msg)  ==
    [outcome |-> "panic", clauses |-> <<>>, err |-> PlainErr("panic", msg)]

\* JSON number of the integer grammar -?(0|[1-9][0-9]*)
isJSONDigits(body) ==
    /\ body # ""
    /\ AllDigits(body)
    /\ (Len(body) > 1 => Head(body) # "0")

IsJSONInt(s) == isJSONDigits(TrimPrefix(s, "-"))

JSONIntValue(s) ==
    IF Head(s) = "-" THEN 0 - DigitsValue(Tail(s), 0) ELSE DigitsValue(s, 0)

IsJSONScalar(s) == s \in {"null", "true", "false"} \/ IsJSONInt(s)

JSONScalar(s) ==
    IF s = "null" THEN NilV
    ELSE IF s = "true" THEN BoolV(TRUE)
    ELSE IF s = "false" THEN BoolV(FALSE)
    ELSE NumV(JSONIntValue(s))

\* the elements of a JSON array, given the texts between its commas
jsonElements(parts) ==
    IF \A i \in 1..Len(parts) : IsJSONScalar(parts[i])
    THEN [ok |-> TRUE, vals |-> [i \in 1..Len(parts) |-> JSONScalar(parts[i])]]
    ELSE [ok |-> FALSE, vals |-> <<>>]

\* json.Unmarshal([]byte(text), &ps) with ps []interface{}, for a text that
\* starts with "[" and ends with "]" and holds no bracket, quote, blank,
\* fraction or exponent in between (the texts the model feeds it)
jsonUnmarshalArray(text) ==
    IF Len(text) = 2 THEN [ok |-> TRUE, vals |-> <<>>]
    ELSE jsonElements(Split(SubSeq(text, 2, Len(text) - 1), ","))

mapUserInputAsUnaryQuery(op, column, userInput, value) ==
    ParseOk(<<Clause(column \o " " \o op \o " ?", <<StrV(value)>>)>>)

\* mapAsInQuery with one placeholder per comma instead of one per value
inClause_perComma(column, ps) ==
    IF ~ps.ok THEN ParseErr(PlainErr("decode", "json"))
    ELSE IF Len(ps.vals) - 1 < 0 THEN ParsePanic("strings: negative Repeat count")
    ELSE ParseOk(<<Clause(column \o " IN (" \o Repeat("?,", Len(ps.vals) - 1) \o ")",
                          ps.vals)>>)

\* mapAsInQuery once the list is decoded into ps
inClause(column, ps) ==
    IF ~ps.ok THEN ParseErr(PlainErr("decode", "json"))
    ELSE IF Len(ps.vals) - 1 < 0 THEN ParsePanic("strings: negative Repeat count")
    ELSE ParseOk(<<Clause(column \o " IN (" \o Repeat("?,", Len(ps.vals) - 1)
                            \o "?" \o ")",
                          ps.vals)>>)

mapAsInQuery(column, userInput, value) ==
    inClause(column,
             jsonUnmarshalArray("[" \o TrimSuffix(TrimPrefix(value, "("), ")") \o "]"))

\* the switch of mapAsIsQuery over the lower-cased value
isClause(column, userInput, value, lowered) ==
    IF lowered = "null" THEN ParseOk(<<Clause(column \o " IS ?", <<NilV>>)>>)
    ELSE IF lowered = "false"
    THEN ParseOk(<<Clause(column \o " IS ?", <<BoolV(FALSE)>>)>>)
    ELSE IF lowered = "true"
    THEN ParseOk(<<Clause(column \o " IS ?", <<BoolV(TRUE)>>)>>)
    ELSE ParseErr(ErrUnsupportedOperator(userInput \o "." \o value))

mapAsIsQuery(column, userInput, value) ==
    isClause(column, userInput, value, ToLower(value))

\* the operator table with the entry of "ge" taken for that of "gt"
queryOpereators_geAsGt ==
    ("eq" :> [fn |-> "unary", op |-> "="]) @@
    ("gt" :> [fn |-> "unary", op |-> ">"]) @@
    ("ge" :> [fn |-> "unary", op |-> ">"]) @@
    ("lt" :> [fn |-> "unary", op |-> "<"]) @@
    ("le" :> [fn |-> "unary", op |-> "<="]) @@
    ("neq" :> [fn |-> "unary", op |-> "!="]) @@
    ("like" :> [fn |-> "unary", op |-> "LIKE"]) @@
    ("ilike" :> [fn |-> "unary", op |-> "ILIKE"]) @@
    ("in" :> [fn |-> "in", op |-> ""]) @@
    ("is" :> [fn |-> "is", op |-> ""])

\* the operator table: token -> parse function (and its SQL operator)
queryOpereators ==
    ("eq" :> [fn |-> "unary", op |-> "="]) @@
    ("gt" :> [fn |-> "unary", op |-> ">"]) @@
    ("ge" :> [fn |-> "unary", op |-> ">="]) @@
    ("lt" :> [fn |-> "unary", op |-> "<"]) @@
    ("le" :> [fn |-> "unary", op |-> "<="]) @@
    ("neq" :> [fn |-> "unary", op |-> "!="]) @@
    ("like" :> [fn |-> "unary", op |-> "LIKE"]) @@
    ("ilike" :> [fn |-> "unary", op |-> "ILIKE"]) @@
    ("in" :> [fn |-> "in", op |-> ""]) @@
    ("is" :> [fn |-> "is", op |-> ""])

\* p(column, op, userInput) for the table entry p
applyOperator(p, column, op, userInput) ==
    IF p.fn = "unary" THEN mapUserInputAsUnaryQuery(p.op, column, op, userInput)
    ELSE IF p.fn = "in" THEN mapAsInQuery(column, op, userInput)
    ELSE mapAsIsQuery(column, op, userInput)

\* getQueryClausesByInput after ps := strings.SplitN(s, ".", 2)
clausesOfSplit(column, s, ps) ==
    IF Len(ps) < 2 THEN ParsePanic("index out of range [1] with length 1")
    ELSE IF ps[1] = "" \/ ps[2] = "" THEN ParseErr(ErrUnsupportedOperator(s))
    ELSE IF ps[1] \in DOMAIN queryOpereators
    THEN applyOperator(queryOpereators[ps[1]], column, ps[1], ps[2])
    ELSE ParseErr(ErrUnsupportedOperator(s))

getQueryClausesByInput(column, s) ==
    IF s = "" THEN ParseOk(<<>>) ELSE clausesOfSplit(column, s, SplitN2(s, "."))

(***************************************************************************)
(* The request: routed table, parsed query string (key/value pairs in URL   *)
(* order, as url.Values groups them per key), headers and body.             *)
(***************************************************************************)
queryParameterNameSelect     == "select"
queryParameterNameOrder      == "order"
queryParameterNameLimit      == "limit"
queryParameterNameOffset     == "offset"
queryParameterNameOnConflict == "on_conflict"

\* the keys of c.req.URL.Query()
QueryKeys(r) == {r.query[i].k : i \in 1..Len(r.query)}

RECURSIVE ValuesOf(_, _)
ValuesOf(q, name) ==
    IF q = <<>> THEN <<>>
    ELSE IF Head(q).k = name THEN <<Head(q).v>> \o ValuesOf(Tail(q), name)
    ELSE ValuesOf(Tail(q), name)

getQueryParameters(r, name) ==
    IF name \notin QueryKeys(r) THEN <<>> ELSE ValuesOf(r.query, name)

getQueryParameter(r, name) ==
    IF name \notin QueryKeys(r) THEN "" ELSE ValuesOf(r.query, name)[1]

isColumnName(s) ==
    ToLower(s) \notin {queryParameterNameSelect, queryParameterNameOrder,
                       queryParameterNameLimit, queryParameterNameOffset,
                       queryParameterNameOnConflict}

\* the first result that is not ok, else all clauses in sequence order: what

\* appending the clauses of one result to those of the results after it,
\* unless those failed
appendClauses(first, rest) ==
    IF rest.outcome # "ok" THEN rest
    ELSE ParseOk(first.clauses \o rest.clauses)

\* the first result that is not ok, else all clauses in sequence order: what
\* a loop that appends and returns early on the first failure computes
RECURSIVE AppendAll(_)
AppendAll(results) ==
    IF results = <<>> THEN ParseOk(<<>>)
    ELSE IF Head(results).outcome # "ok" THEN Head(results)
    ELSE appendClauses(Head(results), AppendAll(Tail(results)))

\* the loop of getQueryClausesByColumn over the values vs of the column
clausesOfValues(column, vs) ==
    AppendAll([i \in 1..Len(vs) |-> getQueryClausesByInput(column, vs[i])])

getQueryClausesByColumn(r, column) ==
    clausesOfValues(column, getQueryParameters(r, column))

\* `for k := range c.req.URL.Query()`: Go leaves the iteration order of a
\* map unspecified; keyOrder is the order this call happens to get
getQueryClauses(r, keyOrder) ==
    AppendAll([i \in 1..Len(keyOrder) |->
                  IF isColumnName(keyOrder[i])
                  THEN getQueryClausesByColumn(r, keyOrder[i])
                  ELSE ParseOk(<<>>)])

\* the orders in which n keys of ks can come out of a range over a map
MapKeyOrders(ks, n) ==
    {o \in [1..n -> ks] : \A i, j \in 1..n : i # j => o[i] # o[j]}

\* the orders a range over the query map can produce
KeyOrders(r) == MapKeyOrders(QueryKeys(r), Cardinality(QueryKeys(r)))

RECURSIVE ClauseExprs(_)
ClauseExprs(cs) ==
    IF cs = <<>> THEN <<>> ELSE <<Head(cs).Expr>> \o ClauseExprs(Tail(cs))

RECURSIVE ClauseValues(_)
ClauseValues(cs) ==
    IF cs = <<>> THEN <<>> ELSE Head(cs).Values \o ClauseValues(Tail(cs))

\* the columns of a non-empty or empty select parameter v
resultColumns(v) == IF v = "" THEN <<"*">> ELSE Split(v, ",")

getSelectResultColumns(r) ==
    resultColumns(getQueryParameter(r, queryParameterNameSelect))

(***************************************************************************)
(* Order clause parser.                                                     *)
(***************************************************************************)
orderByNulls == ("nullslast" :> "nulls last") @@ ("nullsfirst" :> "nulls first")

translateOrderBy(s) == IF s \in DOMAIN orderByNulls THEN orderByNulls[s] ELSE s

\* the switch translating the second part of three parts as well
orderSwitch_everyPart(v, ps) ==
    IF Len(ps) = 1 THEN [ok |-> TRUE, item |-> ps[1]]
    ELSE IF Len(ps) = 2
    THEN [ok |-> TRUE, item |-> ps[1] \o " " \o translateOrderBy(ps[2])]
    ELSE IF Len(ps) = 3
    THEN [ok |-> TRUE,
          item |-> ps[1] \o " " \o translateOrderBy(ps[2]) \o " "
                     \o translateOrderBy(ps[3])]
    ELSE [ok |-> FALSE, item |-> v]

\* the switch over len(ps) for one item v of the order parameter
orderSwitch(v, ps) ==
    IF Len(ps) = 1 THEN [ok |-> TRUE, item |-> ps[1]]
    ELSE IF Len(ps) = 2
    THEN [ok |-> TRUE, item |-> ps[1] \o " " \o translateOrderBy(ps[2])]
    ELSE IF Len(ps) = 3
    THEN [ok |-> TRUE,
          item |-> ps[1] \o " " \o ps[2] \o " " \o translateOrderBy(ps[3])]
    ELSE [ok |-> FALSE, item |-> v]

orderItem(v) == orderSwitch(v, Split(v, "."))

\* the result of the loop over the items: the first invalid one fails it
orderItems(items) ==
    IF \E i \in 1..Len(items) : ~items[i].ok
    THEN [outcome |-> "error", vs |-> <<>>,
          err |-> PlainErr("format",
                    "invalid order by clause: "
                      \o items[CHOOSE i \in 1..Len(items) :
                                 /\ ~items[i].ok
                                 /\ \A j \in 1..(i - 1) : items[j].ok].item)]
    ELSE [outcome |-> "ok", vs |-> [i \in 1..Len(items) |-> items[i].item],
          err |-> NoErr]

orderTokens(toks) == orderItems([i \in 1..Len(toks) |-> orderItem(toks[i])])

orderOf(v) ==
    IF v = "" THEN [outcome |-> "ok", vs |-> <<>>, err |-> NoErr]
    ELSE orderTokens(Split(v, ","))

getOrderClauses(r) == orderOf(getQueryParameter(r, queryParameterNameOrder))

(***************************************************************************)
(* Pagination resolver.                                                     *)
(***************************************************************************)
errNoLimitOffset == PlainErr("errNoLimitOffset", "no limit offset")

PageOk(limit, offset) ==
    [outcome |-> "ok", limit |-> limit, offset |-> offset, err |-> NoErr]
PageErr(err) == [outcome |-> "error", limit |-> 0, offset |-> 0, err |-> err]
PagePanic(msg) ==
    [outcome |-> "panic", limit |-> 0, offset |-> 0, err |-> PlainErr("panic", msg)]

\* the end of the range taken for the number of rows
rangeLimit_exclusive(offset, s, to) ==
    IF ~to.ok THEN PageErr(PlainErr("strconv", s))
    ELSE PageOk(WrapInt64(to.n - offset), offset)

\* the end of the range: to - offset + 1 in int64 arithmetic
rangeLimit(offset, s, to) ==
    IF ~to.ok THEN PageErr(PlainErr("strconv", s))
    ELSE PageOk(WrapInt64(to.n - offset + 1), offset)

\* getLimitOffsetFromHeader after the offset is parsed: ps[1] is read
\* whatever the length of ps
rangeAfterOffset(ps, offset) ==
    IF ~offset.ok THEN PageErr(PlainErr("strconv", ps[1]))
    ELSE IF Len(ps) < 2 THEN PagePanic("index out of range [1] with length 1")
    ELSE IF ps[2] = "" THEN PageOk(0 - 1, offset.n)
    ELSE rangeLimit(offset.n, ps[2], ParseInt(ps[2]))

rangeOfSplit(ps) == rangeAfterOffset(ps, ParseInt(ps[1]))

getLimitOffsetFromHeader(r) ==
    IF r.Range = "" THEN PageErr(errNoLimitOffset)
    ELSE rangeOfSplit(SplitN2(r.Range, "-"))

\* the getInt64 closure for the parameter value v: ok, errNoLimitOffset for
\* an empty value, or the strconv error
int64Of(v, n) ==
    IF v = "" THEN [ok |-> FALSE, n |-> 0, err |-> errNoLimitOffset]
    ELSE IF ~n.ok THEN [ok |-> FALSE, n |-> 0, err |-> PlainErr("strconv", v)]
    ELSE [ok |-> TRUE, n |-> n.n, err |-> NoErr]

int64OfValue(v) == int64Of(v, ParseInt(v))

getInt64(r, qp) == int64OfValue(getQueryParameter(r, qp))

\* the switch of getLimitOffsetFromQueryParameter over the two results
limitOffsetOf(limit, offset) ==
    IF ~limit.ok THEN PageErr(limit.err)
    ELSE IF offset.ok THEN PageOk(limit.n, offset.n)
    ELSE IF offset.err = errNoLimitOffset THEN PageOk(limit.n, 0)
    ELSE PageErr(offset.err)

getLimitOffsetFromQueryParameter(r) ==
    limitOffsetOf(getInt64(r, queryParameterNameLimit),
                  getInt64(r, queryParameterNameOffset))

\* getLimitOffset with the parameters consulted whatever the header says
headerOrParameter_parameterOnly(r, h) ==
    IF h.outcome = "panic" THEN h ELSE getLimitOffsetFromQueryParameter(r)

\* getLimitOffset, given what the header h resolved to
headerOrParameter(r, h) ==
    IF h.outcome = "panic" THEN h
    ELSE IF h.outcome = "ok" THEN h
    ELSE IF h.err # errNoLimitOffset THEN h
    ELSE getLimitOffsetFromQueryParameter(r)

getLimitOffset(r) == headerOrParameter(r, getLimitOffsetFromHeader(r))

\* the Content-Range header with the upper bound left out for every limit
contentRangeOf_alwaysOpen(p, totalCount) ==
    IF p.outcome = "panic" THEN [outcome |-> "panic", header |-> ""]
    ELSE IF p.outcome = "error" THEN [outcome |-> "ok", header |-> ""]
    ELSE [outcome |-> "ok",
          header |-> FormatInt(p.offset) \o "-/" \o totalCount]

\* the text of the Content-Range header for the resolved pagination p
contentRangeOf(p, totalCount) ==
    IF p.outcome = "panic" THEN [outcome |-> "panic", header |-> ""]
    ELSE IF p.outcome = "error" THEN [outcome |-> "ok", header |-> ""]
    ELSE IF p.limit < 0
    THEN [outcome |-> "ok",
          header |-> FormatInt(p.offset) \o "-/" \o totalCount]
    ELSE [outcome |-> "ok",
          header |-> FormatInt(p.offset) \o "-"
                       \o FormatInt(WrapInt64(p.offset + p.limit - 1))
                       \o "/" \o totalCount]

\* the result of CompileContentRangeHeader: the header text, or a panic
CompileContentRangeHeader(r, totalCount) ==
    contentRangeOf(getLimitOffset(r), totalCount)

(***************************************************************************)
(* Payload decoder.                                                         *)
(***************************************************************************)
RECURSIVE TrimLeft(_)
TrimLeft(s) == IF s # "" /\ Ch(s, 1) = " " THEN TrimLeft(Tail(s)) ELSE s

RECURSIVE TrimRight(_)
TrimRight(s) ==
    IF s # "" /\ Ch(s, Len(s)) = " "
    THEN TrimRight(SubSeq(s, 1, Len(s) - 1)) ELSE s

\* strings.TrimSpace (blanks are the only white space of the model's texts)
TrimSpace(s) == TrimRight(TrimLeft(s))

\* the checks of mime.ParseMediaType on the type/subtype text
mediaTypeOf(base, slash) ==
    IF base = "" \/ Index(base, " ") # 0 THEN [ok |-> FALSE, mt |-> ""]
    ELSE IF slash # 0 /\ (slash = 1 \/ slash = Len(base))
    THEN [ok |-> FALSE, mt |-> ""]
    ELSE [ok |-> TRUE, mt |-> base]

mediaTypeOfBase(base) == mediaTypeOf(base, Index(base, "/"))

\* mime.ParseMediaType(v), for candidates whose parameters (after ";") are
\* well formed: the lower-cased, trimmed type/subtype, or an error
ParseMediaType(v) == mediaTypeOfBase(TrimSpace(ToLower(SplitN2(v, ";")[1])))

\* the byte (ASCII code) of a character
ByteOf ==
    (" " :> 32) @@ ("-" :> 45) @@ ("." :> 46) @@ ("0" :> 48) @@
    ("1" :> 49) @@ ("2" :> 50) @@ ("3" :> 51) @@ ("4" :> 52) @@
    ("5" :> 53) @@ ("6" :> 54) @@ ("7" :> 55) @@ ("8" :> 56) @@
    ("9" :> 57) @@ ("A" :> 65) @@ ("B" :> 66) @@ ("C" :> 67) @@
    ("D" :> 68) @@ ("E" :> 69) @@ ("F" :> 70) @@ ("G" :> 71) @@
    ("H" :> 72) @@ ("I" :> 73) @@ ("J" :> 74) @@ ("K" :> 75) @@
    ("L" :> 76) @@ ("M" :> 77) @@ ("N" :> 78) @@ ("O" :> 79) @@
    ("P" :> 80) @@ ("Q" :> 81) @@ ("R" :> 82) @@ ("S" :> 83) @@
    ("T" :> 84) @@ ("U" :> 85) @@ ("V" :> 86) @@ ("W" :> 87) @@
    ("X" :> 88) @@ ("Y" :> 89) @@ ("Z" :> 90) @@ ("_" :> 95) @@
    ("a" :> 97) @@ ("b" :> 98) @@ ("c" :> 99) @@ ("d" :> 100) @@
    ("e" :> 101) @@ ("f" :> 102) @@ ("g" :> 103) @@ ("h" :> 104) @@
    ("i" :> 105) @@ ("j" :> 106) @@ ("k" :> 107) @@ ("l" :> 108) @@
    ("m" :> 109) @@ ("n" :> 110) @@ ("o" :> 111) @@ ("p" :> 112) @@
    ("q" :> 113) @@ ("r" :> 114) @@ ("s" :> 115) @@ ("t" :> 116) @@
    ("u" :> 117) @@ ("v" :> 118) @@ ("w" :> 119) @@ ("x" :> 120) @@
    ("y" :> 121) @@ ("z" :> 122)

\* s < t as Go compares strings
RECURSIVE StrLess(_, _)
StrLess(s, t) ==
    IF t = "" THEN FALSE
    ELSE IF s = "" THEN TRUE
    ELSE IF Head(s) = Head(t) THEN StrLess(Tail(s), Tail(t))
    ELSE ByteOf[Head(s)] < ByteOf[Head(t)]

RECURSIVE SortStrings(_)

\* the least string of a non-empty set, then the others
sortedFrom(S, m) == <<m>> \o SortStrings(S \ {m})

\* sort.Strings over the keys of a set
SortStrings(S) ==
    IF S = {} THEN <<>>
    ELSE sortedFrom(S, CHOOSE x \in S : \A y \in S \ {x} : StrLess(x, y))

\* InputPayloadWithColumns.GetSortedColumns
GetSortedColumns(p) == SortStrings(p.Columns)

\* the rows of values one after the other
RECURSIVE Flatten(_)
Flatten(rows) == IF rows = <<>> THEN <<>> ELSE Head(rows) \o Flatten(Tail(rows))

\* GetValues leaving out the keys a row lacks
GetValues_skipMissing(p, columns) ==
    [i \in 1..Len(p.Payload) |->
        Flatten([j \in 1..Len(columns) |->
            IF columns[j] \in DOMAIN p.Payload[i]
            THEN <<p.Payload[i][columns[j]]>> ELSE <<>>])]

\* InputPayloadWithColumns.GetValues
GetValues(p, columns) ==
    [i \in 1..Len(p.Payload) |->
        [j \in 1..Len(columns) |->
            IF columns[j] \in DOMAIN p.Payload[i]
            THEN p.Payload[i][columns[j]] ELSE NilV]]

RECURSIVE RowKeys(_)
RowKeys(rows) ==
    IF rows = <<>> THEN {} ELSE (DOMAIN Head(rows)) \cup RowKeys(Tail(rows))

PayloadOk(rows) ==
    [outcome |-> "ok", Columns |-> RowKeys(rows), Payload |-> rows, err |-> NoErr]
PayloadErr(err) ==
    [outcome |-> "error", Columns |-> {}, Payload |-> <<>>, err |-> err]

\* tryReadInputPayloadAsJSON on the bytes of the body.  A body is the JSON
\* document it holds: json says what encoding/json makes of it ("array" of
\* objects, one "object", the literal "null", or something it rejects) and
\* rows are the objects
tryReadInputPayloadAsJSON(body) ==
    IF body.json = "array" THEN PayloadOk(body.rows)
    ELSE IF body.json = "object" THEN PayloadOk(body.rows)
    ELSE IF body.json = "null" THEN PayloadOk(<< <<>> >>)
    ELSE IF body.json = "unreadable" THEN PayloadErr(PlainErr("read", "body"))
    ELSE PayloadErr(PlainErr("decode", "json"))

\* the media types of the candidates vs of the Content-Type header
mediaTypesOf(vs) == [i \in 1..Len(vs) |-> ParseMediaType(vs[i])]

mediaTypes(r) ==
    mediaTypesOf(Split(IF r.ContentType = "" THEN "application/octet-stream"
                       ELSE r.ContentType, ","))

\* does some candidate of mts make getInputPayload read the body
someJSON(mts) ==
    \E i \in 1..Len(mts) : mts[i].ok /\ mts[i].mt = "application/json"

readsBody(r) == someJSON(mediaTypes(r))

\* the bytes of a stream that has nothing left to give
NoBytes == [json |-> "empty", rows |-> <<>>]

\* io.ReadAll on the body: the bytes from the position of the stream to its
\* end, and the stream is left at its end
ReadAll(body) == IF body.pos = "end" THEN NoBytes ELSE body.doc

\* readyRequestBody reading the stream and leaving it where the read ended
readyRequestBody_keepStream(r) ==
    [r EXCEPT !.Body = [doc |-> @.doc, buffered |-> @.buffered, pos |-> "end",
                        reads |-> IF @.reads < 2 THEN @.reads + 1 ELSE @.reads]]

\* readyRequestBody: the stream is read to its end and replaced by a buffer
\* of the bytes read, at its start; reads counts the reads of the stream the
\* client sent.  A stream whose read fails ("unreadable") is left in place
readyRequestBody(r) ==
    IF r.Body.doc.json = "unreadable" THEN r
    ELSE [r EXCEPT !.Body =
              [doc |-> ReadAll(@), buffered |-> TRUE, pos |-> "start",
               reads |-> IF @.buffered THEN @.reads ELSE @.reads + 1]]

\* the loop of getInputPayload over the candidates mts: a candidate that
\* fails, by its type or by its decoding, is skipped; every JSON candidate
\* tried reads the body again.  payload is what the loop returns and req the
\* request it leaves
RECURSIVE readCandidates(_, _)
afterCandidate(r, rest, p) ==
    IF p.outcome = "ok" THEN [payload |-> p, req |-> readyRequestBody(r)]
    ELSE readCandidates(readyRequestBody(r), rest)

readCandidates(r, mts) ==
    IF mts = <<>>
    THEN [payload |-> PayloadErr(ErrUnsupportedMediaType), req |-> r]
    ELSE IF Head(mts).ok /\ Head(mts).mt = "application/json"
    THEN afterCandidate(r, Tail(mts), tryReadInputPayloadAsJSON(ReadAll(r.Body)))
    ELSE readCandidates(r, Tail(mts))

getInputPayload(r) == readCandidates(r, mediaTypes(r)).payload

\* the request a call of getInputPayload leaves behind
requestAfterPayload(r) == readCandidates(r, mediaTypes(r)).req

(***************************************************************************)
(* Preference resolver.                                                     *)
(***************************************************************************)
countNone  == ""
countExact == "exact"
resolutionNone             == ""
resolutionMergeDuplicates  == "merge-duplicates"
resolutionIgnoreDuplicates == "ignore-duplicates"

\* a count method check that accepts every value
CountMethodValid_any(c) == TRUE

CountMethodValid(c) == c \in {countNone, countExact}
ResolutionMethodValid(m) ==
    m \in {resolutionNone, resolutionIgnoreDuplicates, resolutionMergeDuplicates}

PrefOk(resolution, count) ==
    [outcome |-> "ok", Resolution |-> resolution, Count |-> count, err |-> NoErr]

\* the switch over the lower-cased key of one item k=raw of the header
preferenceSwitch(rv, k, raw, v) ==
    IF k = "count"
    THEN IF CountMethodValid(v) THEN [rv EXCEPT !.Count = v]
         ELSE [rv EXCEPT !.outcome = "error",
                         !.err = ErrBadRequest(
                                   "unsupported count preference: " \o raw)]
    ELSE IF k = "resolution"
    THEN IF ResolutionMethodValid(v) THEN [rv EXCEPT !.Resolution = v]
         ELSE [rv EXCEPT !.outcome = "error",
                         !.err = ErrBadRequest(
                                   "unsupported resolution preference: " \o raw)]
    ELSE rv

\* one item of the header, trimmed and split at its first "="
preferenceItem(rv, ps) ==
    IF Len(ps) < 2 THEN rv
    ELSE preferenceSwitch(rv, ToLower(ps[1]), ps[2], ToLower(ps[2]))

\* the loop over the items of the header: rv is the preference so far, or
\* the error already returned
RECURSIVE parsePreferenceItems(_, _)
parsePreferenceItems(items, rv) ==
    IF items = <<>> \/ rv.outcome # "ok" THEN rv
    ELSE parsePreferenceItems(Tail(items),
             preferenceItem(rv, SplitN2(TrimSpace(Head(items)), "=")))

\* ParsePreferenceFromRequest taking ";" for the separator of the items
ParsePreferenceFromRequest_semicolon(r) ==
    IF r.Prefer = "" THEN PrefOk(resolutionNone, countNone)
    ELSE parsePreferenceItems(Split(r.Prefer, ";"), PrefOk(resolutionNone, countNone))

ParsePreferenceFromRequest(r) ==
    IF r.Prefer = "" THEN PrefOk(resolutionNone, countNone)
    ELSE parsePreferenceItems(Split(r.Prefer, ","), PrefOk(resolutionNone, countNone))

(***************************************************************************)
(* Statement compiler.  Every Compile* returns the CompiledQuery as far as  *)
(* it was built (the Go code returns rv with the error) and how the call    *)
(* ended.                                                                   *)
(***************************************************************************)
CQ(outcome, query, values, err) ==
    [outcome |-> outcome, Query |-> query, Values |-> values, err |-> err]

\* the WHERE clause with its clauses joined by " or "
withWhere_or(query, clauses) ==
    IF Len(clauses) > 0
    THEN query \o " where " \o Join(ClauseExprs(clauses), " or ")
    ELSE query

\* fmt.Sprintf("%s where %s", rv.Query, strings.Join(qcs, " and "))
withWhere(query, clauses) ==
    IF Len(clauses) > 0
    THEN query \o " where " \o Join(ClauseExprs(clauses), " and ")
    ELSE query

\* the steps every statement with filters shares: the error of
\* getQueryClauses returns rv as built so far; else the clauses' values are
\* appended to rv.Values and the WHERE clause to rv.Query
\* the shared steps with the clauses' values put in front of rv.Values
whereStage_valuesFirst(query, values, qc) ==
    IF qc.outcome # "ok" THEN CQ(qc.outcome, query, values, qc.err)
    ELSE CQ("ok", withWhere(query, qc.clauses),
            ClauseValues(qc.clauses) \o values, NoErr)

whereStage(query, values, qc) ==
    IF qc.outcome # "ok" THEN CQ(qc.outcome, query, values, qc.err)
    ELSE CQ("ok", withWhere(query, qc.clauses),
            values \o ClauseValues(qc.clauses), NoErr)

\* rv.Query with " limit %d" and, for a non-zero offset, " offset %d"
withLimitOffset(query, limit, offset) ==
    IF offset # 0
    THEN query \o " limit " \o FormatInt(limit) \o " offset " \o FormatInt(offset)
    ELSE query \o " limit " \o FormatInt(limit)

\* the switch of CompileAsSelect over the result lo of getLimitOffset
limitStage(query, values, lo) ==
    IF lo.outcome = "panic" THEN CQ("panic", query, values, lo.err)
    ELSE IF lo.outcome = "ok"
    THEN CQ("ok", withLimitOffset(query, lo.limit, lo.offset), values, NoErr)
    ELSE IF lo.err = errNoLimitOffset THEN CQ("ok", query, values, NoErr)
    ELSE CQ("error", query, values, lo.err)

\* rv.Query with its " order by " clause
withOrderBy(query, orderClauses) ==
    IF Len(orderClauses) > 0
    THEN query \o " order by " \o Join(orderClauses, ", ")
    ELSE query

\* CompileAsSelect from getOrderClauses on, rv being the statement so far
orderStage(r, rv, oc) ==
    IF oc.outcome # "ok" THEN CQ("error", rv.Query, rv.Values, oc.err)
    ELSE limitStage(withOrderBy(rv.Query, oc.vs), rv.Values, getLimitOffset(r))

selectStage(r, rv) ==
    IF rv.outcome # "ok" THEN rv ELSE orderStage(r, rv, getOrderClauses(r))

CompileAsSelect(r, keyOrder) ==
    selectStage(r,
        whereStage("select " \o Join(getSelectResultColumns(r), ", ")
                     \o " from " \o r.table,
                   <<>>, getQueryClauses(r, keyOrder)))

\* CompileAsExactCount counting every row of the table
CompileAsExactCount_noWhere(r, keyOrder) ==
    CQ("ok", "select count(1) from " \o r.table, <<>>, NoErr)

CompileAsExactCount(r, keyOrder) ==
    whereStage("select count(1) from " \o r.table, <<>>,
               getQueryClauses(r, keyOrder))

\* the SET list over the sorted columns of the one row of the payload
updateSetList(table, columns, updateValues) ==
    CQ("ok",
       "update " \o table \o " set "
         \o Join([i \in 1..Len(columns) |-> columns[i] \o " = ?"], ", "),
       [i \in 1..Len(columns) |-> updateValues[columns[i]]],
       NoErr)

\* the checks on the payload of an update without the one on more than one
\* row: the first row is taken
updateOfPayload_firstRow(table, payload) ==
    IF payload.outcome # "ok" THEN CQ("error", "", <<>>, payload.err)
    ELSE IF Cardinality(payload.Columns) < 1
    THEN CQ("error", "", <<>>, ErrBadRequest("no columns to insert"))
    ELSE IF Len(payload.Payload) < 1
    THEN CQ("error", "", <<>>, ErrBadRequest("no data to insert"))
    ELSE updateSetList(table, SortStrings(DOMAIN payload.Payload[1]),
                       payload.Payload[1])

\* the checks on the payload of an update
updateOfPayload(table, payload) ==
    IF payload.outcome # "ok" THEN CQ("error", "", <<>>, payload.err)
    ELSE IF Cardinality(payload.Columns) < 1
    THEN CQ("error", "", <<>>, ErrBadRequest("no columns to insert"))
    ELSE IF Len(payload.Payload) < 1
    THEN CQ("error", "", <<>>, ErrBadRequest("no data to insert"))
    ELSE IF Len(payload.Payload) > 1
    THEN CQ("error", "", <<>>, ErrBadRequest("too many data to update"))
    ELSE updateSetList(table, GetSortedColumns(payload), payload.Payload[1])

\* the part CompileAsUpdate and CompileAsUpdateSingleEntry share, word for
\* word: payload checks and the SET list
compileUpdateSet(r) == updateOfPayload(r.table, getInputPayload(r))

updateWhere(r, rv, keyOrder) ==
    IF rv.outcome # "ok" THEN rv
    ELSE whereStage(rv.Query, rv.Values, getQueryClauses(r, keyOrder))

CompileAsUpdate(r, keyOrder) == updateWhere(r, compileUpdateSet(r), keyOrder)

\* the single-entry variant taking an empty list of clauses as the plain
\* update does
singleEntryWhere_optional(rv, qc) == whereStage(rv.Query, rv.Values, qc)

\* the single-entry variant refuses an empty list of clauses
singleEntryWhere(rv, qc) ==
    IF qc.outcome = "ok" /\ Len(qc.clauses) < 1
    THEN CQ("error", rv.Query, rv.Values,
            ErrBadRequest("expect to specifiy primary key query"))
    ELSE whereStage(rv.Query, rv.Values, qc)

updateSingleEntryWhere(r, rv, keyOrder) ==
    IF rv.outcome # "ok" THEN rv
    ELSE singleEntryWhere(rv, getQueryClauses(r, keyOrder))

CompileAsUpdateSingleEntry(r, keyOrder) ==
    updateSingleEntryWhere(r, compileUpdateSet(r), keyOrder)

\* the column list in parentheses whatever the on_conflict parameter v holds
onConflictColumnsClause_always(v) ==
    " (" \o Join(Split(v, ","), ", ") \o ")"

\* " (c1, c2)" for the columns of a non-empty on_conflict parameter v
onConflictColumnsClause(v) ==
    IF v # "" THEN " (" \o Join(Split(v, ","), ", ") \o ")" ELSE ""

\* the conflict clause of CompileAsInsert for the resolution preference
conflictSwitch(resolution, columnsClause, columns) ==
    IF resolution = resolutionNone THEN ""
    ELSE IF resolution = resolutionIgnoreDuplicates
    THEN " on conflict" \o columnsClause \o " do nothing"
    ELSE " on conflict" \o columnsClause \o " do update set "
           \o Join([i \in 1..Len(columns) |->
                      columns[i] \o " = excluded." \o columns[i]], ", ")

onConflictClause(r, preference, columns) ==
    conflictSwitch(preference.Resolution,
                   onConflictColumnsClause(
                       getQueryParameter(r, queryParameterNameOnConflict)),
                   columns)

\* the statement text and values for the rows of the payload
insertValues(r, preference, columns, values) ==
    CQ("ok",
       "insert into " \o r.table \o " (" \o Join(columns, ", ")
         \o ") values "
         \o Join([i \in 1..Len(values) |->
                    "(" \o Repeat("?, ", Len(columns) - 1) \o "?)"], ", ")
         \o onConflictClause(r, preference, columns),
       Flatten(values), NoErr)

insertColumns(r, preference, payload, columns) ==
    insertValues(r, preference, columns, GetValues(payload, columns))

\* the checks of CompileAsInsert on the preference and the payload
insertOfPayload(r, preference, payload) ==
    IF preference.outcome # "ok" THEN CQ("error", "", <<>>, preference.err)
    ELSE IF payload.outcome # "ok" THEN CQ("error", "", <<>>, payload.err)
    ELSE IF Cardinality(payload.Columns) < 1
    THEN CQ("error", "", <<>>, ErrBadRequest("no columns to insert"))
    ELSE IF Len(payload.Payload) < 1
    THEN CQ("error", "", <<>>, ErrBadRequest("no data to insert"))
    ELSE insertColumns(r, preference, payload, GetSortedColumns(payload))

CompileAsInsert(r) ==
    insertOfPayload(r, ParsePreferenceFromRequest(r), getInputPayload(r))

CompileAsDelete(r, keyOrder) ==
    whereStage("delete from " \o r.table, <<>>, getQueryClauses(r, keyOrder))

(***************************************************************************)
(* The middlewares in front of the table handlers.  opts are the options    *)
(* the server was built with: auth is "disabled" (unit tests), "token"      *)
(* (--auth-token-file) or "rsa" (--auth-rsa-public-key), key is what the    *)
(* key file holds when a request reads it, allow is the list of             *)
(* --security-allow-table.                                                  *)
(***************************************************************************)
\* strings.EqualFold on ASCII texts
EqualFold(s, t) == ToLower(s) = ToLower(t)

\* the tokens clients send, by what they are: the alg of the header, the
\* key the signature was made with, whether the claims are still valid.
\* Any other text is not a JWT
JWTs ==
    ("hs.good" :> [alg |-> "HS256", key |-> "secret", expired |-> FALSE])
      @@ ("hs384.good" :> [alg |-> "HS384", key |-> "secret", expired |-> FALSE])
      @@ ("hs.forged" :> [alg |-> "HS256", key |-> "guess", expired |-> FALSE])
      @@ ("hs.expired" :> [alg |-> "HS256", key |-> "secret", expired |-> TRUE])
      @@ ("hs.pub" :> [alg |-> "HS256", key |-> "public", expired |-> FALSE])
      @@ ("rs.good" :> [alg |-> "RS256", key |-> "public", expired |-> FALSE])
      @@ ("rs.forged" :> [alg |-> "RS256", key |-> "guess", expired |-> FALSE])
      @@ ("rs.secret" :> [alg |-> "RS512", key |-> "secret", expired |-> FALSE])
      @@ ("none" :> [alg |-> "none", key |-> "", expired |-> FALSE])

\* the signing methods the parser is built with
validMethods(o) ==
    IF o.auth = "rsa" THEN {"RS256", "RS384", "RS512"}
    ELSE IF o.auth = "token" THEN {"HS256", "HS384", "HS512"}
    ELSE {}

\* a parser that takes a token of any signing method
jwtParse_anyMethod(token, methods, key) ==
    /\ token \in DOMAIN JWTs
    /\ key # "unreadable"
    /\ JWTs[token].key = key
    /\ ~JWTs[token].expired

\* jwtParser.Parse(token, jwtKeyFunc) returns no error: the text is a
\* JWT, its alg is one of the valid methods, the key file can be read and
\* its key verifies the signature, and the claims are valid
jwtParse(token, methods, key) ==
    /\ token \in DOMAIN JWTs
    /\ JWTs[token].alg \in methods
    /\ key # "unreadable"
    /\ JWTs[token].key = key
    /\ ~JWTs[token].expired

\* the checks of the auth middleware on the Authorization header v, split
\* at its first blank
authOfHeader(o, v, ps) ==
    IF v = "" THEN ErrUnauthorized("missing auth header")
    ELSE IF Len(ps) # 2 THEN ErrUnauthorized("invalid auth header")
    ELSE IF ~EqualFold(ps[1], "Bearer") THEN ErrUnauthorized("invalid auth header")
    ELSE IF ~jwtParse(ps[2], validMethods(o), o.key)
    THEN ErrUnauthorized("invalid token")
    ELSE NoErr

\* the error the auth middleware answers, NoErr when it calls next
createAuthMiddleware(o, r) ==
    IF o.auth = "disabled" THEN NoErr
    ELSE authOfHeader(o, r.Authorization, SplitN2(r.Authorization, " "))

\* an access check that takes a name in any letter case
createTableOrViewAccessCheckMiddleware_foldCase(o, r) ==
    IF \E t \in o.allow : EqualFold(t, r.table) THEN NoErr
    ELSE ErrAccessRestricted

\* the error the access check answers, NoErr when it calls next
createTableOrViewAccessCheckMiddleware(o, r) ==
    IF r.table \in o.allow THEN NoErr ELSE ErrAccessRestricted

\* With(auth, access check): the first middleware that answers ends the
\* request
chainOf(authErr, accessErr) == IF authErr # NoErr THEN authErr ELSE accessErr

middlewares(o, r) ==
    chainOf(createAuthMiddleware(o, r),
            createTableOrViewAccessCheckMiddleware(o, r))

(***************************************************************************)
(* Inputs.                                                                  *)
(***************************************************************************)
RECURSIVE StringsUpTo(_, _)
StringsUpTo(alphabet, n) ==
    IF n = 0 THEN {""}
    ELSE LET S == StringsUpTo(alphabet, n - 1)
         IN  S \cup {s \o c : s \in S, c \in alphabet}

RECURSIVE SeqsUpTo(_, _)
SeqsUpTo(S, n) ==
    IF n = 0 THEN {<<>>}
    ELSE LET T == SeqsUpTo(S, n - 1)
         IN  T \cup {Append(t, x) : t \in T, x \in S}

Tables == {"test"}
FilterKeys == {"id", "a"}

\* raw filter texts of whole requests: well formed ones, an empty one, one
\* without ".", one with an unknown operator, an empty `in` list
RequestRaws ==
    {"eq.1", "eq.2", "is.null", "is.true", "in.(1,2)", "", "eq", "fts.1", "in.()"}

FilterPairs == {[k |-> k, v |-> v] : k \in FilterKeys, v \in RequestRaws}

ReservedPairs ==
    {[k |-> "select", v |-> "a"], [k |-> "Select", v |-> "eq.1"],
     [k |-> "LIMIT", v |-> "5"], [k |-> "order", v |-> "a.desc"],
     [k |-> "on_conflict", v |-> "id"]}

Row(a) == [a |-> NumV(a)]
ObjectDoc(row) == [json |-> "object", rows |-> <<row>>]
ArrayDoc(rows) == [json |-> "array", rows |-> rows]

Request(table, query, range, prefer, contentType, doc) ==
    [table |-> table, query |-> query, Range |-> range, Prefer |-> prefer,
     ContentType |-> contentType, Authorization |-> "",
     Body |-> [doc |-> doc, buffered |-> FALSE, pos |-> "start", reads |-> 0]]

FilterRequests ==
    {Request(t, q, "", "", "application/json", ObjectDoc(Row(1))) :
        t \in Tables, q \in SeqsUpTo(FilterPairs \cup ReservedPairs, MaxParams)}

\* decimal texts around the ends of the int64 range
Numerals == {"3", "5", FormatInt(MaxInt64), FormatInt(MaxInt64 + 1)}
RangeStarts == Numerals \cup {"", "x", "-3"}
RangeEnds == Numerals \cup {"", "x", "-5", FormatInt(MinInt64)}
RangeValues ==
    {""} \cup RangeStarts \cup {a \o "-" \o b : a \in RangeStarts, b \in RangeEnds}

LimitValues == {"", "5", "-2", "x"}
OffsetValues == {"", "2", "x"}

\* the limit/offset parameters of a request: each absent or present
PageQueries ==
    {<<>>} \cup {<<[k |-> "limit", v |-> l]>> : l \in LimitValues}
           \cup {<<[k |-> "offset", v |-> o]>> : o \in OffsetValues}
           \cup {<<[k |-> "offset", v |-> o], [k |-> "limit", v |-> l]>> :
                    l \in LimitValues, o \in OffsetValues}

PageRequests ==
    {Request(t, q, rg, "", "application/json", ObjectDoc(Row(1))) :
        t \in Tables, q \in PageQueries, rg \in RangeValues}

Docs ==
    {ObjectDoc(Row(1)), ObjectDoc(Row(2)), ObjectDoc([a |-> NumV(1), b |-> NumV(2)]),
     ArrayDoc(<<Row(1), [b |-> NumV(2)]>>), ArrayDoc(<<>>),
     ArrayDoc(<<[a |-> NumV(1), B |-> StrV("x")], Row(2)>>),
     [json |-> "null", rows |-> <<>>], [json |-> "invalid", rows |-> <<>>],
     [json |-> "unreadable", rows |-> <<>>]}

ContentTypes ==
    {"", "application/json", "text/plain", "Application/JSON; charset=utf-8",
     "text/plain, application/json", "application/json, application/json"}

Prefers == {"", "resolution=merge-duplicates", "resolution=ignore-duplicates",
            "count=exact", "resolution=replace"}

PayloadQueries ==
    {<<>>, <<[k |-> "id", v |-> "eq.1"]>>, <<[k |-> "id", v |-> "eq.2"]>>,
     <<[k |-> "on_conflict", v |-> "id"]>>, <<[k |-> "on_conflict", v |-> ""]>>,
     <<[k |-> "on_conflict", v |-> "id,a"]>>, <<[k |-> "id", v |-> ""]>>,
     <<[k |-> "select", v |-> "a"]>>}

PayloadRequests ==
    {Request(t, q, "", pf, ct, d) :
        t \in Tables, q \in PayloadQueries, pf \in Prefers,
        ct \in ContentTypes, d \in Docs}

\* requests with filters on one and on several columns, lists, a repeated
\* column, a column name holding a question mark, and payloads of one and of
\* two columns
BindingPairs ==
    {[k |-> "id", v |-> "eq.1"], [k |-> "id", v |-> "eq.2"],
     [k |-> "id", v |-> "in.(1,2)"], [k |-> "a", v |-> "eq.2"],
     [k |-> "a", v |-> "is.null"], [k |-> "a?", v |-> "eq.1"]}

BindingDocs ==
    {ObjectDoc(Row(1)), ObjectDoc([a |-> NumV(1), b |-> NumV(2)]),
     ArrayDoc(<<Row(1), [b |-> NumV(2)]>>)}

BindingRequests ==
    {Request(t, q, "", "", "application/json", d) :
        t \in Tables, q \in SeqsUpTo(BindingPairs, 2), d \in BindingDocs}

\* items of a Prefer header: recognised and unrecognised values of both
\* keys in either letter case, another key, an item without "=", blanks
\* around the item, around the value and around the key
PreferItems ==
    {"count=exact", "count=", "Count=EXACT", "count=planned",
     "resolution=merge-duplicates", "resolution=Ignore-Duplicates",
     "RESOLUTION=replace", "resolution=", "return=minimal", "count", "",
     " count=exact ", "count= exact", "count =none"}

\* the two preferences in one header, with ";" and with "," between them
SemicolonPrefer == "count=exact; resolution=merge-duplicates"
CommaPrefer == "count=exact, resolution=merge-duplicates"

PreferHeaders ==
    PreferItems \cup {a \o "," \o b : a, b \in PreferItems}
                \cup {a \o ", " \o b : a, b \in PreferItems}
                \cup {SemicolonPrefer, CommaPrefer}

PreferRequests ==
    {Request(t, <<>>, "", pf, "application/json", ObjectDoc(Row(1))) :
        t \in Tables, pf \in PreferHeaders}

\* tokens of the order parameter: a column and up to MaxOrderParts - 1
\* more parts, among them the nulls keywords and the empty part
OrderColumns == {"a", "b"}
OrderWords == {"desc", "nullsfirst", "nullslast", ""}

RECURSIVE OrderTokensOf(_)
OrderTokensOf(n) ==
    IF n = 1 THEN OrderColumns
    ELSE OrderTokensOf(n - 1)
           \cup {t \o "." \o x : t \in OrderTokensOf(n - 1), x \in OrderWords}

ListedTokens ==
    {"a", "b.desc", "a.nullslast", "b.asc.nullsfirst", "a.desc.x.y", ""}

OrderValues ==
    {""} \cup OrderTokensOf(MaxOrderParts)
         \cup {s \o "," \o t : s, t \in ListedTokens}

OrderRequests ==
    {Request(t, <<[k |-> "order", v |-> o]>>, "", "", "application/json",
             ObjectDoc(Row(1))) : t \in Tables, o \in OrderValues}

\* targets of the route /{tableOrView}
Targets == {"test", "Test", "secret", "__sqlite_rest_migrations"}

\* Authorization headers: none, a scheme alone, another scheme, Bearer in
\* either letter case with each token, a text that is not a JWT, two blanks
Authorizations ==
    {"", "Bearer", "Basic hs.good", "Bearer garbage", "Bearer  hs.good"}
      \cup {"Bearer " \o t : t \in DOMAIN JWTs}
      \cup {"bearer hs.good", "BEARER rs.good"}

ServerRequests ==
    {[Request(t, <<[k |-> "id", v |-> "eq.1"]>>, "", "", "application/json",
              ObjectDoc(Row(1))) EXCEPT !.Authorization = a] :
        t \in Targets, a \in Authorizations}

\* the options a server can be built with: defaults() refuses auth without
\* a key file and with two
AllowLists == {{}, {"test"}, {"test", "__sqlite_rest_migrations"}}

ServerOptions ==
    {[auth |-> "disabled", key |-> "", allow |-> al] : al \in AllowLists}
      \cup {[auth |-> "token", key |-> k, allow |-> al] :
               k \in {"secret", "unreadable"}, al \in AllowLists}
      \cup {[auth |-> "rsa", key |-> k, allow |-> al] :
               k \in {"public", "unreadable"}, al \in AllowLists}

\* the server of the unit tests of the compiler's handlers
TestServer == [auth |-> "disabled", key |-> "", allow |-> {"test"}]

Requests(fam) ==
    IF fam = "filters" THEN FilterRequests
    ELSE IF fam = "server" THEN ServerRequests
    ELSE IF fam = "order" THEN OrderRequests
    ELSE IF fam = "page" THEN PageRequests
    ELSE IF fam = "prefer" THEN PreferRequests
    ELSE IF fam = "binding" THEN BindingRequests
    ELSE PayloadRequests

\* the operators whose right-hand side is one value
ValueOperators ==
    {op \in DOMAIN queryOpereators : queryOpereators[op].fn \in {"unary", "is"}}

\* a raw filter text with the value of its comparison or `is` filter left
\* out; any other text is its own shape
shapeOfSplit(raw, ps) ==
    IF Len(ps) = 2 /\ ps[1] \in ValueOperators /\ ps[2] # ""
    THEN ps[1] \o ".?" ELSE raw

filterShape(raw) == shapeOfSplit(raw, SplitN2(raw, "."))

\* the same parameter with another value
PairVariants(p) ==
    IF isColumnName(p.k)
    THEN {[k |-> p.k, v |-> v] : v \in {x \in RequestRaws : filterShape(x) = filterShape(p.v)}}
    ELSE {p}

RECURSIVE QueryVariants(_)
QueryVariants(q) ==
    IF q = <<>> THEN {<<>>}
    ELSE {<<p>> \o t : p \in PairVariants(Head(q)), t \in QueryVariants(Tail(q))}

\* the bodies with the same rows and keys and other values
DocVariants(doc) ==
    {d \in Docs : /\ d.json = doc.json
                  /\ Len(d.rows) = Len(doc.rows)
                  /\ \A i \in 1..Len(d.rows) : DOMAIN d.rows[i] = DOMAIN doc.rows[i]}

\* the requests that differ from r only in filter values and payload values
RequestVariants(r) ==
    {[r EXCEPT !.query = q, !.Body = [doc |-> d, buffered |-> FALSE, pos |-> "start",
                                    reads |-> 0]] :
        q \in QueryVariants(r.query), d \in DocVariants(r.Body.doc)}

Totals == {"*", "10"}

\* raw filter texts handed to the filter parser alone
RawAlphabet == {"e", "q", ".", "1"}
OperatorTokens ==
    {"eq", "neq", "gt", "ge", "lt", "le", "like", "ilike", "is", "in",
     "EQ", "not", "fts"}
UserInputs ==
    {"1", "a.b", "x y", "1;drop table test", "null", "NULL", "Null", "true",
     "TRUE", "false", "False", "maybe", "nul", "(1)", "(x)"}
InBodies == StringsUpTo({"1", "2", ","}, MaxInLen)
RawInputs ==
    StringsUpTo(RawAlphabet, MaxRawLen)
      \cup {op \o "." \o v : op \in OperatorTokens, v \in UserInputs}
      \cup {"in." \o pre \o b \o suf :
              pre \in {"", "("}, b \in InBodies, suf \in {"", ")"}}

(***************************************************************************)
(* The state machine.  The compiler is created per request and keeps no     *)
(* state between requests, so a behaviour is the life of one request and    *)
(* of the requests that repeat it with other values: the handlers compile   *)
(* the request, in any order and any number of times.  res is the last      *)
(* compilation: the request it was called for and what came back.           *)
(* arg/ret are the argument and the result of a call of the filter parser   *)
(* on its own.                                                              *)
(***************************************************************************)
VARIABLES opts, family, req, res, arg, ret, db, run, mig, srv, cache

\* the state beyond one compilation: the stored rows and the request a
\* handler is serving, the migrator, the servers of the serve command and
\* the cache of the key file
aux == <<db, run, mig, srv, cache>>

vars == <<opts, family, req, res, arg, ret, aux>>

\* no handler is serving
NoRun == [pc |-> "off"]

\* no migrator, no server started, no key file read
NoMig == [op |-> "off"]
NoSrv == [pc |-> "off"]
NoCache == [pc |-> "off"]

IdleHandlers ==
    /\ db = <<>>
    /\ run = NoRun

Idle ==
    /\ IdleHandlers
    /\ mig = NoMig
    /\ srv = NoSrv
    /\ cache = NoCache

NoResult == [op |-> "none"]
NoArg == [column |-> "", s |-> ""]
NoRet == [outcome |-> "none"]

\* what a handler made of its request: the compilation and, when it failed
\* with an error, the status of the answer (0: the handler went on)
Result(op, out) ==
    [op |-> op, req |-> req, out |-> out,
     status |-> IF out.outcome \in {"error", "rejected"}
                THEN responseError(out.err) ELSE 0]

\* a request a middleware answered: the handler never ran
Rejected(err) == CQ("rejected", "", <<>>, err)

\* the handler op behind the middlewares, err being what they answered
servedOf(op, out, err) ==
    IF err = NoErr THEN Result(op, out) ELSE Result(op, Rejected(err))

Served(op, out) == servedOf(op, out, middlewares(opts, req))

\* the request reaches its handler
Passes == middlewares(opts, req) = NoErr

InitFamily(fam) ==
    /\ opts = TestServer
    /\ family = fam
    /\ req \in Requests(fam)
    /\ res = NoResult
    /\ arg = NoArg
    /\ ret = NoRet
    /\ Idle

\* any server and the requests of the server family
InitServer ==
    /\ opts \in ServerOptions
    /\ family = "server"
    /\ req \in ServerRequests
    /\ res = NoResult
    /\ arg = NoArg
    /\ ret = NoRet
    /\ Idle

Init == InitFamily("filters")
InitPage == InitFamily("page")
InitPayload == InitFamily("payload")

\* a compilation that does not read the body
Compiled(op, out) ==
    /\ res' = Served(op, out)
    /\ UNCHANGED <<aux, opts, family, req, arg, ret>>

\* a compilation that reads the body through getInputPayload
CompiledWithPayload(op, out) ==
    /\ res' = Served(op, out)
    /\ req' = IF Passes THEN requestAfterPayload(req) ELSE req
    /\ UNCHANGED <<aux, opts, family, arg, ret>>

Select ==
    \E keyOrder \in KeyOrders(req) :
        Compiled("Select", CompileAsSelect(req, keyOrder))

ExactCount ==
    \E keyOrder \in KeyOrders(req) :
        Compiled("ExactCount", CompileAsExactCount(req, keyOrder))

Update ==
    \E keyOrder \in KeyOrders(req) :
        CompiledWithPayload("Update", CompileAsUpdate(req, keyOrder))

UpdateSingleEntry ==
    \E keyOrder \in KeyOrders(req) :
        CompiledWithPayload("UpdateSingleEntry",
                            CompileAsUpdateSingleEntry(req, keyOrder))

Insert ==
    /\ res' = Served("Insert", CompileAsInsert(req))
    /\ req' = IF Passes /\ ParsePreferenceFromRequest(req).outcome = "ok"
              THEN requestAfterPayload(req) ELSE req
    /\ UNCHANGED <<aux, opts, family, arg, ret>>

Delete ==
    \E keyOrder \in KeyOrders(req) :
        Compiled("Delete", CompileAsDelete(req, keyOrder))

ContentRange ==
    \E totalCount \in Totals :
        /\ Passes
        /\ res' = [op |-> "ContentRange", req |-> req, totalCount |-> totalCount,
                   out |-> CompileContentRangeHeader(req, totalCount)]
        /\ UNCHANGED <<aux, opts, family, req, arg, ret>>

\* the client sends the request again, with other values: a new request
\* with a body not yet read
Resend ==
    /\ req' \in RequestVariants(req) \cap Requests(family)
    /\ UNCHANGED <<aux, opts, family, res, arg, ret>>

Next ==
    \/ Select
    \/ ExactCount
    \/ Update
    \/ UpdateSingleEntry
    \/ Insert
    \/ Delete
    \/ ContentRange
    \/ Resend

Spec == Init /\ [][Next]_vars
SpecPage == InitPage /\ [][Next]_vars
SpecPayload == InitPayload /\ [][Next]_vars

InitOrder == InitFamily("order")

SpecServer == InitServer /\ [][Next]_vars
SpecOrder == InitOrder /\ [][Next]_vars

\* the pagination resolver on its own, on the requests of the page family
ResolvePagination ==
    /\ ret' = getLimitOffset(req)
    /\ UNCHANGED <<aux, opts, family, req, res, arg>>

NextPagination == ResolvePagination

SpecPagination == InitPage /\ [][NextPagination]_vars

\* the preference resolver on its own, on the requests of the prefer family
InitPreference == InitFamily("prefer")

ResolvePreference ==
    /\ ret' = ParsePreferenceFromRequest(req)
    /\ UNCHANGED <<aux, opts, family, req, res, arg>>

NextPreference == ResolvePreference

SpecPreference == InitPreference /\ [][NextPreference]_vars

\* the filter parser on its own
InitFilter ==
    /\ opts = TestServer
    /\ family = "parser"
    /\ req = Request("test", <<>>, "", "", "", ObjectDoc(Row(1)))
    /\ res = NoResult
    /\ arg \in {[column |-> c, s |-> s] : c \in FilterKeys, s \in RawInputs}
    /\ ret = NoRet
    /\ Idle

ParseFilter ==
    /\ ret' = getQueryClausesByInput(arg.column, arg.s)
    /\ UNCHANGED <<aux, opts, family, req, res, arg>>

NextFilter == ParseFilter

SpecFilter == InitFilter /\ [][NextFilter]_vars

(***************************************************************************)
(* Properties.                                                              *)
(***************************************************************************)
\* the operations that compile a statement
CompileOps ==
    {"Select", "ExactCount", "Update", "UpdateSingleEntry", "Insert", "Delete"}

\* res and res' are two successful compilations by the same operation
TwoCompilations ==
    /\ res.op \in CompileOps
    /\ res'.op = res.op
    /\ res.out.outcome = "ok"
    /\ res'.out.outcome = "ok"

\* the descriptor of a request: what the client sent, whether or not the
\* body has been read since
Descriptor(r) ==
    [r EXCEPT !.Body = [doc |-> @.doc, buffered |-> FALSE, pos |-> "start",
                        reads |-> 0]]

\* C1: two requests that differ only in the values of their comparison and
\* `is` filters and of their payload fields (same table, keys, operators,
\* payload keys and row count) and that both compile, by the same
\* operation, compile to the same SQL text.
C1_SameTextForOtherValues ==
    [][(/\ TwoCompilations
        /\ Descriptor(res'.req) \in RequestVariants(res.req)
        /\ Descriptor(res'.req) # Descriptor(res.req))
       => res'.out.Query = res.out.Query]_vars

\* C2: compiling the same request twice by the same operation gives the
\* same SQL text and the same parameter list, value by value.
C2_Idempotent ==
    [][(/\ TwoCompilations
        /\ Descriptor(res'.req) = Descriptor(res.req))
       => (/\ res'.out.Query = res.out.Query
           /\ res'.out.Values = res.out.Values)]_vars

\* C3: every compile operation and CompileContentRangeHeader ends by
\* returning a result or an error; none ends in a panic.
C3_NoPanic == res.op # "none" => res.out.outcome # "panic"

\* the operator and the value of a raw filter text: what comes before and
\* after its first "."
OpOf(raw) == SubSeq(raw, 1, Index(raw, ".") - 1)
ValueOf(raw) == SubSeq(raw, Index(raw, ".") + 1, Len(raw))

\* the raw filter text handed to the parser
ArgOp == OpOf(arg.s)
ArgValue == ValueOf(arg.s)
ArgHasValue == Index(arg.s, ".") > 0 /\ ArgValue # ""

\* the SQL operator of each comparison token
SqlOperator ==
    ("eq" :> "=") @@ ("neq" :> "!=") @@ ("gt" :> ">") @@ ("ge" :> ">=") @@
    ("lt" :> "<") @@ ("le" :> "<=") @@ ("like" :> "LIKE") @@ ("ilike" :> "ILIKE")

\* the value each literal of `is` binds
IsLiteral ==
    ("null" :> NilV) @@ ("true" :> BoolV(TRUE)) @@ ("false" :> BoolV(FALSE))

\* C4: for a column c and a non-empty value v, c=op.v with a comparison
\* token op yields exactly one clause "c <sqlop> ?" and one parameter, the
\* string v as written; c=is.v with v null, true or false in any case yields
\* one clause "c IS ?" bound to NULL, true or false, and any other v fails
\* with UnsupportedOperator.
C4_OperatorTable ==
    (ret # NoRet /\ ArgHasValue) =>
        /\ ArgOp \in DOMAIN SqlOperator =>
              ret = ParseOk(<<Clause(arg.column \o " " \o SqlOperator[ArgOp] \o " ?",
                                     <<StrV(ArgValue)>>)>>)
        /\ ArgOp = "is" =>
              IF ToLower(ArgValue) \in DOMAIN IsLiteral
              THEN ret = ParseOk(<<Clause(arg.column \o " IS ?",
                                          <<IsLiteral[ToLower(ArgValue)]>>)>>)
              ELSE /\ ret.outcome = "error"
                   /\ ret.err.kind = "UnsupportedOperator"
                   /\ ret.clauses = <<>>

\* a comparison whose value holds a "." of its own has been parsed
C4_Witness ==
    /\ ret # NoRet
    /\ arg.s = "ge.a.b"
    /\ ret.outcome = "ok"

\* the text between the parentheses of the value of an `in` filter
InBodyOf(value) ==
    SubSeq(value,
           IF Ch(value, 1) = "(" THEN 2 ELSE 1,
           IF Ch(value, Len(value)) = ")" THEN Len(value) - 1 ELSE Len(value))

\* the elements of a list of numerals, or an empty text where one is missing
InPieces(value) == Split(InBodyOf(value), ",")

InListComplete(value) ==
    \A i \in 1..Len(InPieces(value)) :
        InPieces(value)[i] # "" /\ AllDigits(InPieces(value)[i])

\* C5: c=in.(e1,...,en) with n >= 1 numerals compiles to one clause
\* "c IN (?,...,?)" with n placeholders, bound to the n numbers in the order
\* written; a list that is not valid JSON once wrapped in brackets (a
\* missing element, as in "in.(1,2,") fails with a decode error and yields
\* no clause.
C5_InList ==
    (/\ ret # NoRet
     /\ ArgHasValue
     /\ ArgOp = "in"
     /\ InBodyOf(ArgValue) \in InBodies \ {""})
    => IF InListComplete(ArgValue)
       THEN ret = ParseOk(<<Clause(
                     arg.column \o " IN ("
                       \o Join([i \in 1..Len(InPieces(ArgValue)) |-> "?"], ",")
                       \o ")",
                     [i \in 1..Len(InPieces(ArgValue)) |->
                        NumV(DigitsValue(InPieces(ArgValue)[i], 0))])>>)
       ELSE /\ ret.outcome = "error"
            /\ ret.err.kind = "decode"
            /\ ret.clauses = <<>>

\* a list of three numbers has been parsed
C5_Witness ==
    /\ ret # NoRet
    /\ arg.s = "in.(1,2,1)"
    /\ ret.outcome = "ok"
    /\ Len(ret.clauses[1].Values) = 3

\* the operations that take filters from the query string
FilterOps == {"Select", "ExactCount", "Update", "UpdateSingleEntry", "Delete"}

\* the reserved query keys
ReservedKeys == {"select", "order", "limit", "offset", "on_conflict"}

\* the occurrences of filterable parameters in a query string, in its order
RECURSIVE FilterOccurrences(_)
FilterOccurrences(q) ==
    IF q = <<>> THEN <<>>
    ELSE IF ToLower(Head(q).k) \in ReservedKeys THEN FilterOccurrences(Tail(q))
    ELSE <<Head(q)>> \o FilterOccurrences(Tail(q))

\* a raw filter text of the form <recognized operator>.<non-empty value>
RecognizedForm(raw) ==
    /\ Index(raw, ".") > 0
    /\ OpOf(raw) \in DOMAIN SqlOperator \cup {"is", "in"}
    /\ ValueOf(raw) # ""

\* C6: when some occurrence of a filterable parameter has a raw value that
\* is not of the form <recognized operator>.<non-empty value>, no operation
\* that takes filters emits a statement (the parameter is never dropped).
C6_MalformedFilterNotDropped ==
    (/\ res.op \in FilterOps
     /\ \E i \in 1..Len(FilterOccurrences(res.req.query)) :
            ~RecognizedForm(FilterOccurrences(res.req.query)[i].v))
    => res.out.outcome # "ok"

\* a well-formed filter: a comparison with a value, `is` with one of its
\* literals, `in` with a list of numerals
WellFormedFilter(raw) ==
    /\ RecognizedForm(raw)
    /\ OpOf(raw) = "is" => ToLower(ValueOf(raw)) \in DOMAIN IsLiteral
    /\ OpOf(raw) = "in" => InListComplete(ValueOf(raw))

\* the clause of a well-formed filter on column k
ExpectedExpr(k, raw) ==
    IF OpOf(raw) \in DOMAIN SqlOperator
    THEN k \o " " \o SqlOperator[OpOf(raw)] \o " ?"
    ELSE IF OpOf(raw) = "is" THEN k \o " IS ?"
    ELSE k \o " IN ("
           \o Join([i \in 1..Len(InPieces(ValueOf(raw))) |-> "?"], ",") \o ")"

\* where text t starts in s, from position i on; 0 when it does not
RECURSIVE TextIndex(_, _, _)
TextIndex(s, t, i) ==
    IF i + Len(t) - 1 > Len(s) THEN 0
    ELSE IF SubSeq(s, i, i + Len(t) - 1) = t THEN i
    ELSE TextIndex(s, t, i + 1)

\* what follows the first t in s (nothing when t is not in s), and what
\* comes before it (all of s when t is not in s)
After(s, t) ==
    IF TextIndex(s, t, 1) = 0 THEN ""
    ELSE SubSeq(s, TextIndex(s, t, 1) + Len(t), Len(s))
Before(s, t) ==
    IF TextIndex(s, t, 1) = 0 THEN s ELSE SubSeq(s, 1, TextIndex(s, t, 1) - 1)

\* the WHERE clause of a statement: from " where " to " order by " or the end
WhereClause(query) == Before(After(query, " where "), " order by ")

\* the clauses of the occurrences occ, taken in the order p and joined
JoinedClauses(occ, p) ==
    Join([j \in 1..Len(occ) |-> ExpectedExpr(occ[p[j]].k, occ[p[j]].v)], " and ")

\* C7: when every filter of the request is well formed, Select, ExactCount,
\* Update, UpdateSingleEntry and Delete emit a WHERE clause made of one
\* clause per occurrence of each key that is not reserved (in any letter
\* case), in some order of the occurrences, joined by " and "; and no WHERE
\* at all when there is no such occurrence.
C7_WhereClause ==
    (/\ res.op \in FilterOps
     /\ res.out.outcome = "ok"
     /\ \A i \in 1..Len(FilterOccurrences(res.req.query)) :
            WellFormedFilter(FilterOccurrences(res.req.query)[i].v))
    => IF FilterOccurrences(res.req.query) = <<>>
       THEN TextIndex(res.out.Query, " where ", 1) = 0
       ELSE \E p \in MapKeyOrders(1..Len(FilterOccurrences(res.req.query)),
                                  Len(FilterOccurrences(res.req.query))) :
               WhereClause(res.out.Query)
                 = JoinedClauses(FilterOccurrences(res.req.query), p)

\* one key given twice has given two clauses
C7_Witness ==
    /\ res.op = "Delete"
    /\ res.req.query = <<[k |-> "id", v |-> "eq.1"], [k |-> "id", v |-> "eq.2"]>>
    /\ res.out.outcome = "ok"
    /\ res.out.Query = "delete from test where id = ? and id = ?"

\* integers written in Range headers: the ends of the int64 range and
\* small ones of either sign
RangeIntegers == {MinInt64, 0 - 5, 0 - 3, 3, 5, MaxInt64}

\* C8 as stated, for any integers: a Range header a-b resolves to offset a
\* and limit b - a + 1 in int64 arithmetic, and a- to offset a and limit -1.
C8_RangeOfIntegers ==
    ret # NoRet =>
        \A a \in RangeIntegers :
            /\ req.Range = FormatInt(a) \o "-" => ret = PageOk(0 - 1, a)
            /\ \A b \in RangeIntegers :
                  req.Range = FormatInt(a) \o "-" \o FormatInt(b)
                     => ret = PageOk(WrapInt64(b - a + 1), a)

\* C8: a Range header a-b with a written without a minus sign (a >= 0) and
\* b any int64 integer resolves to offset a and limit b - a + 1 in int64
\* arithmetic, and a- resolves to offset a and limit -1.
C8_RangeOfNaturals ==
    ret # NoRet =>
        \A a \in {n \in RangeIntegers : n >= 0} :
            /\ req.Range = FormatInt(a) \o "-" => ret = PageOk(0 - 1, a)
            /\ \A b \in RangeIntegers :
                  req.Range = FormatInt(a) \o "-" \o FormatInt(b)
                     => ret = PageOk(WrapInt64(b - a + 1), a)

\* Range 3-5 has resolved to three rows from the fourth on
C8_Witness ==
    /\ req.Range = "3-5"
    /\ ret = PageOk(3, 3)

\* the statement of a request of the page family without pagination
PlainSelect(r) == "select * from " \o r.table

\* " limit L" and, for an offset other than 0, " offset O"
LimitOffsetText(limit, offset) ==
    " limit " \o ToString(limit)
      \o (IF offset # 0 THEN " offset " \o ToString(offset) ELSE "")

\* C9: with a non-empty Range header Select is what it is without the limit
\* and offset parameters; otherwise, with a limit parameter that has a
\* value, limit comes from it and offset from `offset`, 0 when that has no
\* value; otherwise Select succeeds without LIMIT and OFFSET.
C9_Precedence ==
    res.op = "Select" =>
        IF res.req.Range # ""
        THEN res.out = CompileAsSelect([res.req EXCEPT !.query = <<>>], <<>>)
        ELSE IF getQueryParameter(res.req, "limit") # ""
        THEN (/\ ParseInt(getQueryParameter(res.req, "limit")).ok
              /\ \/ getQueryParameter(res.req, "offset") = ""
                 \/ ParseInt(getQueryParameter(res.req, "offset")).ok)
             => /\ res.out.outcome = "ok"
                /\ res.out.Query
                     = PlainSelect(res.req)
                         \o LimitOffsetText(
                              ParseInt(getQueryParameter(res.req, "limit")).n,
                              IF getQueryParameter(res.req, "offset") = "" THEN 0
                              ELSE ParseInt(getQueryParameter(res.req, "offset")).n)
        ELSE /\ res.out.outcome = "ok"
             /\ res.out.Query = PlainSelect(res.req)

\* a Range header has overridden both parameters
C9_Witness ==
    /\ res.op = "Select"
    /\ res.req.Range = "3-5"
    /\ getQueryParameter(res.req, "limit") = "5"
    /\ getQueryParameter(res.req, "offset") = "2"
    /\ res.out.Query = "select * from test limit 3 offset 3"

\* the Content-Range header with a numeric upper bound
ClosedRange(p, totalCount) ==
    ToString(p.offset) \o "-" \o ToString(WrapInt64(p.offset + p.limit - 1))
      \o "/" \o totalCount

\* the Content-Range header without upper bound
OpenRange(p, totalCount) == ToString(p.offset) \o "-/" \o totalCount

\* C10 as stated: the header is empty when pagination does not resolve,
\* open-ended exactly when the resolved limit is -1, and closed for every
\* other limit.
C10_OpenOnlyForMinusOne ==
    (res.op = "ContentRange" /\ res.out.outcome = "ok") =>
        IF getLimitOffset(res.req).outcome = "error" THEN res.out.header = ""
        ELSE IF getLimitOffset(res.req).limit = 0 - 1
        THEN res.out.header = OpenRange(getLimitOffset(res.req), res.totalCount)
        ELSE res.out.header = ClosedRange(getLimitOffset(res.req), res.totalCount)

\* C10: the header is empty when pagination does not resolve, open-ended
\* exactly when the resolved limit is negative, and closed, with upper bound
\* offset+limit-1, for every other limit.
C10_OpenForNegative ==
    (res.op = "ContentRange" /\ res.out.outcome = "ok") =>
        IF getLimitOffset(res.req).outcome = "error" THEN res.out.header = ""
        ELSE IF getLimitOffset(res.req).limit < 0
        THEN res.out.header = OpenRange(getLimitOffset(res.req), res.totalCount)
        ELSE res.out.header = ClosedRange(getLimitOffset(res.req), res.totalCount)

\* Range 3-5 has given the header 3-5/*
C10_Witness ==
    /\ res.op = "ContentRange"
    /\ res.req.Range = "3-5"
    /\ res.totalCount = "*"
    /\ res.out.header = "3-5/*"

\* the sorted sequence of a set of keys: each key once, every key below
\* the keys after it in byte order
SortedKeys(keys) ==
    CHOOSE cols \in MapKeyOrders(keys, Cardinality(keys)) :
        \A i, j \in 1..Len(cols) : i < j => StrLess(cols[i], cols[j])

\* the value bound for column col of a row
BoundValue(row, col) == IF col \in DOMAIN row THEN row[col] ELSE NilV

\* the values of the rows in row-major order over the columns cols
RowMajor(rows, cols) ==
    [n \in 1..(Len(rows) * Len(cols)) |->
        BoundValue(rows[((n - 1) \div Len(cols)) + 1],
                   cols[((n - 1) % Len(cols)) + 1])]

\* the INSERT statement over the columns cols with r groups of placeholders
InsertText(table, cols, r) ==
    "insert into " \o table \o " (" \o Join(cols, ", ") \o ") values "
      \o Join([i \in 1..r |->
                 "(" \o Join([j \in 1..Len(cols) |-> "?"], ", ") \o ")"], ", ")

StartsWith(s, t) == Len(t) <= Len(s) /\ SubSeq(s, 1, Len(t)) = t

\* the rows of a JSON body that is an array of objects or one object
PayloadRows(r) == r.Body.doc.rows

HasRowsAndColumns(r) ==
    /\ r.Body.doc.json \in {"array", "object"}
    /\ Len(PayloadRows(r)) >= 1
    /\ RowKeys(PayloadRows(r)) # {}

\* C11: for a JSON payload of r >= 1 rows whose keys make c >= 1 columns,
\* Insert (which compiles it whenever the body is sent as application/json
\* without a Prefer header) emits the columns in sorted order, r groups of
\* c placeholders, and the r*c values in row-major order over the sorted
\* columns, with NULL for every key a row lacks.
C11_InsertRowsAndColumns ==
    (/\ res.op = "Insert"
     /\ HasRowsAndColumns(res.req))
    => /\ (res.req.ContentType = "application/json" /\ res.req.Prefer = "")
            => res.out.outcome = "ok"
       /\ res.out.outcome = "ok"
            => /\ StartsWith(res.out.Query,
                       InsertText(res.req.table,
                                  SortedKeys(RowKeys(PayloadRows(res.req))),
                                  Len(PayloadRows(res.req))))
               /\ res.out.Values
                    = RowMajor(PayloadRows(res.req),
                               SortedKeys(RowKeys(PayloadRows(res.req))))

\* two rows with different keys: each row binds NULL for the other's key
C11_Witness ==
    /\ res.op = "Insert"
    /\ res.req.Body.doc = ArrayDoc(<<Row(1), [b |-> NumV(2)]>>)
    /\ res.out.outcome = "ok"
    /\ res.out.Query = "insert into test (a, b) values (?, ?), (?, ?)"
    /\ res.out.Values = <<NumV(1), NilV, NilV, NumV(2)>>

\* what follows the first n characters of s
DropFirst(s, n) == SubSeq(s, n + 1, Len(s))

\* what an Insert that compiled appended after its groups of placeholders
InsertSuffix(r, query) ==
    DropFirst(query,
              Len(InsertText(r.table, SortedKeys(RowKeys(PayloadRows(r))),
                             Len(PayloadRows(r)))))

\* the on_conflict columns in parentheses, when the parameter is not empty
ConflictTarget(v) ==
    IF v = "" THEN "" ELSE " (" \o Join(Split(v, ","), ", ") \o ")"

\* col = excluded.col for every column
ExcludedList(cols) ==
    Join([i \in 1..Len(cols) |-> cols[i] \o " = excluded." \o cols[i]], ", ")

\* the conflict clause expected for a resolution
ConflictClause(resolution, v, cols) ==
    IF resolution = "ignore-duplicates"
    THEN " on conflict" \o ConflictTarget(v) \o " do nothing"
    ELSE IF resolution = "merge-duplicates"
    THEN " on conflict" \o ConflictTarget(v) \o " do update set "
           \o ExcludedList(cols)
    ELSE ""

\* C12: an Insert that compiles appends nothing after the value groups when
\* the Prefer resolution is none, `on conflict[ (<on_conflict columns>)] do
\* nothing` for ignore-duplicates and `on conflict[ (<on_conflict columns>)]
\* do update set col = excluded.col, ...` over the sorted payload columns
\* for merge-duplicates, the column list in parentheses being there exactly
\* when the on_conflict parameter is not empty; and the bound values are
\* those of the plain insert.
C12_ConflictClause ==
    (/\ res.op = "Insert"
     /\ res.out.outcome = "ok")
    => /\ InsertSuffix(res.req, res.out.Query)
            = ConflictClause(ParsePreferenceFromRequest(res.req).Resolution,
                             getQueryParameter(res.req, "on_conflict"),
                             SortedKeys(RowKeys(PayloadRows(res.req))))
       /\ res.out.Values
            = RowMajor(PayloadRows(res.req),
                       SortedKeys(RowKeys(PayloadRows(res.req))))

\* merge-duplicates with on_conflict=id,a over a payload of two columns
C12_Witness ==
    /\ res.op = "Insert"
    /\ res.req.Prefer = "resolution=merge-duplicates"
    /\ res.req.query = <<[k |-> "on_conflict", v |-> "id,a"]>>
    /\ res.out.outcome = "ok"
    /\ res.out.Query
         = "insert into test (a, b) values (?, ?) on conflict (id, a) do update set a = excluded.a, b = excluded.b"
    /\ res.out.Values = <<NumV(1), NumV(2)>>

\* the operations that update rows
UpdateOps == {"Update", "UpdateSingleEntry"}

\* the compilation failed with BadRequest and returned no statement
BadRequestNoStatement(out) ==
    /\ out.outcome = "error"
    /\ out.err.kind = "BadRequest"
    /\ out.Query = ""
    /\ out.Values = <<>>

\* C13: Update and UpdateSingleEntry compile only a payload of exactly one
\* row with at least one column; a JSON body that decodes to no row or to
\* more than one row fails with BadRequest and no statement is returned.
C13_ExactlyOneRow ==
    res.op \in UpdateOps
    => /\ res.out.outcome = "ok"
            => /\ res.req.Body.doc.json \in {"array", "object"}
               /\ Len(PayloadRows(res.req)) = 1
               /\ RowKeys(PayloadRows(res.req)) # {}
       /\ (/\ res.req.ContentType = "application/json"
           /\ res.req.Body.doc.json \in {"array", "object"}
           /\ Len(PayloadRows(res.req)) # 1)
            => BadRequestNoStatement(res.out)

\* an array of two rows is refused
C13_Witness ==
    /\ res.op = "UpdateSingleEntry"
    /\ res.req.ContentType = "application/json"
    /\ res.req.Body.doc = ArrayDoc(<<Row(1), [b |-> NumV(2)]>>)
    /\ res.req.query = <<[k |-> "id", v |-> "eq.1"]>>
    /\ BadRequestNoStatement(res.out)
    /\ res.out.err.hint = "too many data to update"

\* a query string that gives the filter parser nothing to make a clause of:
\* no filterable parameter, or only ones with an empty value
YieldsNoClause(q) ==
    \A i \in 1..Len(FilterOccurrences(q)) : FilterOccurrences(q)[i].v = ""

\* an application/json body of exactly one row with at least one column
ValidSingleRow(r) ==
    /\ r.ContentType = "application/json"
    /\ HasRowsAndColumns(r)
    /\ Len(PayloadRows(r)) = 1

\* C14: UpdateSingleEntry fails with BadRequest when the request yields no
\* filter clause, even over a valid payload of one row, and every statement
\* it compiles has the form `update <table> set ... where <clauses>`.
C14_SingleEntryNeedsWhere ==
    res.op = "UpdateSingleEntry"
    => /\ (YieldsNoClause(res.req.query) /\ ValidSingleRow(res.req))
            => /\ res.out.outcome = "error"
               /\ res.out.err.kind = "BadRequest"
               /\ res.out.err.hint = "expect to specifiy primary key query"
       /\ res.out.outcome = "ok"
            => /\ StartsWith(res.out.Query,
                             "update " \o res.req.table \o " set ")
               /\ TextIndex(res.out.Query, " where ", 1) > 0
               /\ After(res.out.Query, " where ") # ""

\* a valid single row and no filter at all
C14_Witness ==
    /\ res.op = "UpdateSingleEntry"
    /\ res.req.query = <<[k |-> "select", v |-> "a"]>>
    /\ res.req.Body.doc = ObjectDoc(Row(1))
    /\ res.out.outcome = "error"
    /\ res.out.err = ErrBadRequest("expect to specifiy primary key query")

\* the items of a Prefer header: its comma-separated parts, trimmed
RECURSIVE TrimAll(_)
TrimAll(items) ==
    IF items = <<>> THEN <<>>
    ELSE <<TrimSpace(Head(items))>> \o TrimAll(Tail(items))

PreferItemsOf(h) == TrimAll(Split(h, ","))

\* the key (in lower case) and the value of an item key=value; an item
\* without "=" has neither
ItemKey(it) ==
    IF Index(it, "=") = 0 THEN "" ELSE ToLower(SubSeq(it, 1, Index(it, "=") - 1))
ItemValue(it) ==
    IF Index(it, "=") = 0 THEN "" ELSE SubSeq(it, Index(it, "=") + 1, Len(it))

RecognizedCounts == {"", "exact"}
RecognizedResolutions == {"", "ignore-duplicates", "merge-duplicates"}

\* an item of a recognized key with a value that is not recognized
BadItem(it) ==
    \/ ItemKey(it) = "count" /\ ToLower(ItemValue(it)) \notin RecognizedCounts
    \/ ItemKey(it) = "resolution"
         /\ ToLower(ItemValue(it)) \notin RecognizedResolutions

\* the value, in lower case, of the last item with key k; dflt without one
RECURSIVE LastValueOf(_, _, _)
LastValueOf(items, k, dflt) ==
    IF items = <<>> THEN dflt
    ELSE LastValueOf(Tail(items), k,
                     IF ItemKey(Head(items)) = k
                     THEN ToLower(ItemValue(Head(items))) ELSE dflt)

EndsWith(s, t) ==
    Len(t) <= Len(s) /\ SubSeq(s, Len(s) - Len(t) + 1, Len(s)) = t

\* C15: ParsePreferenceFromRequest fails with BadRequest citing the value
\* when some item of the Prefer header has the key count or resolution (in
\* any letter case) and a value that is not recognized; otherwise it
\* returns the preference given by the count and resolution items alone,
\* every other item being ignored, which is count=none, resolution=none
\* when there is no such item or no header.
C15_PreferenceItems ==
    ret.outcome # "none"
    => IF \E i \in 1..Len(PreferItemsOf(req.Prefer)) :
              BadItem(PreferItemsOf(req.Prefer)[i])
       THEN /\ ret.outcome = "error"
            /\ ret.err.kind = "BadRequest"
            /\ \E i \in 1..Len(PreferItemsOf(req.Prefer)) :
                  /\ BadItem(PreferItemsOf(req.Prefer)[i])
                  /\ EndsWith(ret.err.hint,
                              " preference: "
                                \o ItemValue(PreferItemsOf(req.Prefer)[i]))
       ELSE /\ ret.outcome = "ok"
            /\ ret.Count = LastValueOf(PreferItemsOf(req.Prefer), "count", "")
            /\ ret.Resolution
                 = LastValueOf(PreferItemsOf(req.Prefer), "resolution", "")

\* an ignored key followed by an unrecognized count
C15_Witness ==
    /\ req.Prefer = "return=minimal, count=planned"
    /\ ret.outcome = "error"
    /\ ret.err = ErrBadRequest("unsupported count preference: planned")

\* the status the HTTP layer owes each kind of compiler failure
StatusOfKind ==
    ("BadRequest" :> 400) @@ ("UnsupportedOperator" :> 400)
      @@ ("format" :> 400) @@ ("UnsupportedMediaType" :> 415)

\* C16: a handler whose compilation fails with BadRequest, UnsupportedOperator
\* or a format error (malformed order clause) answers 400, and with
\* UnsupportedMediaType 415; none of these is answered with a 5xx status.
C16_StatusOfKind ==
    (/\ res.op \in CompileOps
     /\ res.out.outcome = "error"
     /\ res.out.err.kind \in DOMAIN StatusOfKind)
    => /\ res.status = StatusOfKind[res.out.err.kind]
       /\ res.status < 500

\* the operations that decode a payload
PayloadOps == {"Insert", "Update", "UpdateSingleEntry"}

\* the media type a candidate of the Content-Type list names
CandidateType(v) == TrimSpace(ToLower(Before(v, ";")))

\* some candidate of the comma-separated Content-Type list is application/json
HasJSONCandidate(ct) ==
    \E i \in 1..Len(Split(ct, ",")) :
        CandidateType(Split(ct, ",")[i]) = "application/json"

\* the Prefer header has no item that makes parsing fail
PreferAccepted(h) ==
    \A i \in 1..Len(PreferItemsOf(h)) : ~BadItem(PreferItemsOf(h)[i])

\* C17: Insert, Update and UpdateSingleEntry on a request whose Content-Type
\* is application/json and whose body is not valid JSON fail with a decode
\* error and not with UnsupportedMediaType; UnsupportedMediaType is returned
\* only when no candidate of the Content-Type list is application/json.
C17_DecodeErrorNotMediaType ==
    res.op \in PayloadOps
    => /\ (/\ res.req.ContentType = "application/json"
           /\ res.req.Body.doc.json = "invalid"
           /\ PreferAccepted(res.req.Prefer))
            => /\ res.out.outcome = "error"
               /\ res.out.err.kind = "decode"
       /\ (res.out.outcome = "error" /\ res.out.err.kind = "UnsupportedMediaType")
            => ~HasJSONCandidate(res.req.ContentType)

\* the rendering of a nulls keyword
RenderPart(p) ==
    IF p = "nullsfirst" THEN "nulls first"
    ELSE IF p = "nullslast" THEN "nulls last"
    ELSE p

\* the ORDER BY item of the parts ps of a token, the parts numbered in
\* translated being rendered and the others passed through
RenderedItem(ps, translated) ==
    Join([i \in 1..Len(ps) |->
            IF i \in translated THEN RenderPart(ps[i]) ELSE ps[i]], " ")

\* every token of the order value v has at most three parts
AtMostThreeParts(v) ==
    \A i \in 1..Len(Split(v, ",")) : Len(Split(Split(v, ",")[i], ".")) <= 3

\* the ORDER BY list of v with every second and third part rendered
OrderListEvery(v) ==
    Join([i \in 1..Len(Split(v, ",")) |->
            RenderedItem(Split(Split(v, ",")[i], "."), {2, 3})], ", ")

\* the ORDER BY list of v with the last part of two or three rendered
OrderListLast(v) ==
    Join([i \in 1..Len(Split(v, ",")) |->
            RenderedItem(Split(Split(v, ",")[i], "."),
                         {Len(Split(Split(v, ",")[i], "."))} \ {1})], ", ")

\* the order parameter of the request of the last compilation
OrderValue == getQueryParameter(res.req, "order")

\* a Select of the order family, whose requests carry the order parameter
\* alone
OrderedSelect == res.op = "Select" /\ family = "order"

\* Select failed with the format error
FormatError == res.out.outcome = "error" /\ res.out.err.kind = "format"

\* C18 as stated: every token of 1 to 3 parts gives one ORDER BY item, its
\* parts joined by spaces with every 2nd or 3rd part that is a nulls
\* keyword rendered as `nulls first` / `nulls last`; a token of more than 3
\* parts makes Select fail with a format error; items keep the tokens' order.
C18_EveryNullsPart ==
    (OrderedSelect /\ OrderValue # "")
    => IF AtMostThreeParts(OrderValue)
       THEN /\ res.out.outcome = "ok"
            /\ res.out.Query
                 = PlainSelect(res.req) \o " order by " \o OrderListEvery(OrderValue)
       ELSE FormatError

\* C18 as amended: only the last part of a token of 2 or 3 parts is
\* rendered when it is a nulls keyword; the 2nd part of a token of 3 parts
\* is passed through verbatim like every other part; a token of more than 3
\* parts makes Select fail with a format error; items keep the tokens' order.
C18_LastNullsPart ==
    (OrderedSelect /\ OrderValue # "")
    => IF AtMostThreeParts(OrderValue)
       THEN /\ res.out.outcome = "ok"
            /\ res.out.Query
                 = PlainSelect(res.req) \o " order by " \o OrderListLast(OrderValue)
       ELSE FormatError

\* a nulls keyword as the second of three parts is passed through
C18_Witness ==
    /\ OrderedSelect
    /\ OrderValue = "a.nullsfirst.nullslast"
    /\ res.out.outcome = "ok"
    /\ res.out.Query = "select * from test order by a nullsfirst nulls last"

\* a table handler ran for the request of res; it executed SQL when its
\* statement compiled
HandlerRan == res.op \in CompileOps /\ res.out.outcome # "rejected"
SQLExecuted == res.op \in CompileOps /\ res.out.outcome = "ok"

\* a middleware answered the request of res with status s and kind k
AnsweredWith(s, k) ==
    /\ res.out.outcome = "rejected"
    /\ res.status = s
    /\ res.out.err.kind = k

\* token t verifies on the server o: its claims are valid and it is signed,
\* with a method of the family of the configured key, by that key
Verifies(t, o) ==
    /\ ~JWTs[t].expired
    /\ \/ /\ o.auth = "token"
          /\ JWTs[t].alg \in {"HS256", "HS384", "HS512"}
          /\ o.key = "secret"
          /\ JWTs[t].key = "secret"
       \/ /\ o.auth = "rsa"
          /\ JWTs[t].alg \in {"RS256", "RS384", "RS512"}
          /\ o.key = "public"
          /\ JWTs[t].key = "public"

\* header h is `Bearer <token>` (the scheme in any letter case) with a
\* token that verifies on o
CarriesVerifiedToken(o, h) ==
    \E t \in DOMAIN JWTs, scheme \in {"Bearer", "bearer", "BEARER"} :
        h = scheme \o " " \o t /\ Verifies(t, o)

PassesAuth(o, h) == o.auth = "disabled" \/ CarriesVerifiedToken(o, h)

\* C19 as stated: a table handler runs, and SQL is executed, only when the
\* target is exactly one of the allowed names; every other request is
\* answered with Access Restricted (403).
C19_RestrictedIs403 ==
    res.op \in CompileOps
    => /\ HandlerRan => res.req.table \in opts.allow
       /\ SQLExecuted => res.req.table \in opts.allow
       /\ res.req.table \notin opts.allow => AnsweredWith(403, "AccessRestricted")

\* C19 as amended: a table handler runs, and SQL is executed, only when the
\* target is exactly one of the allowed names; a request for any other
\* target is answered by a middleware, with Access Restricted (403) when it
\* passes authentication and with Unauthorized (401) when it does not.  So
\* nothing is accessible with the empty list, nor the migrations table
\* unless it is listed.
C19_RestrictedNeverRuns ==
    res.op \in CompileOps
    => /\ HandlerRan => res.req.table \in opts.allow
       /\ SQLExecuted => res.req.table \in opts.allow
       /\ res.req.table \notin opts.allow
            => IF PassesAuth(opts, res.req.Authorization)
               THEN AnsweredWith(403, "AccessRestricted")
               ELSE AnsweredWith(401, "Unauthorized")

\* an authenticated request for the migrations table, which is not listed
C19_Witness ==
    /\ res.op = "Select"
    /\ opts = [auth |-> "token", key |-> "secret", allow |-> {"test"}]
    /\ res.req.Authorization = "Bearer hs.good"
    /\ res.req.table = "__sqlite_rest_migrations"
    /\ AnsweredWith(403, "AccessRestricted")

PayloadCallMade ==
    /\ res.op \in PayloadOps
    /\ Descriptor(req) = Descriptor(res.req)

BothPreferences ==
    /\ ret.outcome = "ok"
    /\ ret.Count = countExact
    /\ ret.Resolution = resolutionMergeDuplicates

\* C22 as stated: the header `count=exact; resolution=merge-duplicates` is
\* accepted by ParsePreferenceFromRequest and resolves to count=exact and
\* resolution=merge-duplicates.
C22_SemicolonAccepted ==
    (ret.outcome # "none" /\ req.Prefer = SemicolonPrefer) => BothPreferences

\* C22: the header `count=exact, resolution=merge-duplicates`, its items
\* separated by a comma, is accepted by ParsePreferenceFromRequest and
\* resolves to count=exact and resolution=merge-duplicates; written with a
\* semicolon it is one count item and is rejected with BadRequest citing the
\* value `exact; resolution=merge-duplicates`.
C22_CommaAccepted ==
    ret.outcome # "none"
    => /\ req.Prefer = CommaPrefer => BothPreferences
       /\ req.Prefer = SemicolonPrefer
            => /\ ret.outcome = "error"
               /\ ret.err = ErrBadRequest("unsupported count preference: "
                                            \o "exact; resolution=merge-duplicates")

\* the header with the comma has been resolved
C22_Witness ==
    /\ req.Prefer = CommaPrefer
    /\ BothPreferences

(***************************************************************************)
(* The database behind the handlers: the table test, its rows in rowid     *)
(* order, with the INTEGER columns id and a.                                *)
(***************************************************************************)
MaxRows == 2
MaxWrites == 1
ColumnValues == {1, 2}

StoredRow(id, a) == [id |-> id, a |-> a]

TableOf(f) == [i \in DOMAIN f |-> StoredRow(i, f[i])]

Databases ==
    {TableOf(f) : f \in UNION {[1..n -> ColumnValues] : n \in 0..MaxRows}}

\* the rowid of the next row inserted
NextId(table) == IF table = <<>> THEN 1 ELSE table[Len(table)].id + 1

RemoveAt(table, i) == SubSeq(table, 1, i - 1) \o SubSeq(table, i + 1, Len(table))

\* what one committed write of another connection makes of the table
WritesOf(table) ==
    {Append(table, StoredRow(NextId(table), a)) : a \in ColumnValues}
        \cup {RemoveAt(table, i) : i \in 1..Len(table)}

\* strings.Split for a separator of any length
RECURSIVE SplitText(_, _)
splitAt(s, t, i) ==
    IF i = 0 THEN <<s>>
    ELSE <<SubSeq(s, 1, i - 1)>> \o SplitText(SubSeq(s, i + Len(t), Len(s)), t)

SplitText(s, t) == splitAt(s, t, TextIndex(s, t, 1))

RECURSIVE CountPlaceholders(_)
CountPlaceholders(s) ==
    IF s = "" THEN 0
    ELSE (IF Head(s) = "?" THEN 1 ELSE 0) + CountPlaceholders(Tail(s))

\* the parts of a statement: its result columns, the conditions of its WHERE
\* clause, its ORDER BY term, its LIMIT and its OFFSET
ColumnsText(query) == Before(After(query, "select "), " from ")
WhereText(query) ==
    Before(Before(After(query, " where "), " order by "), " limit ")
OrderText(query) == Before(After(query, " order by "), " limit ")
LimitText(query) == Before(After(query, " limit "), " offset ")
OffsetText(query) == After(query, " offset ")

Conditions(query) ==
    IF WhereText(query) = "" THEN <<>> ELSE SplitText(WhereText(query), " and ")

\* each condition with the parameters its placeholders are bound to: the
\* parameters are taken in the order of the placeholders
RECURSIVE BoundConditions(_, _)
boundHead(cond, n, rest, values) ==
    <<[Expr |-> cond, Values |-> SubSeq(values, 1, n)]>>
        \o BoundConditions(rest, SubSeq(values, n + 1, Len(values)))

BoundConditions(conds, values) ==
    IF conds = <<>> THEN <<>>
    ELSE boundHead(Head(conds), CountPlaceholders(Head(conds)), Tail(conds),
                   values)

\* the number a bound parameter is for a column of INTEGER affinity, if it
\* is one: a number, or a text that reads as an integer
IsNumeric(b) ==
    \/ b.t = "float64"
    \/ b.t = "string" /\ b.s # "" /\ AllDigits(b.s)

NumericOf(b) == IF b.t = "float64" THEN b.n ELSE DigitsValue(b.s, 0)

\* v op n between integers
compareInt(v, op, n) ==
    IF op = "=" THEN v = n
    ELSE IF op = "!=" THEN v # n
    ELSE IF op = ">" THEN v > n
    ELSE IF op = ">=" THEN v >= n
    ELSE IF op = "<" THEN v < n
    ELSE v <= n

\* the comparison of SQLite between the stored integer v and the parameter b:
\* NULL compares to nothing, a boolean is bound as 0 or 1, and an integer
\* sorts before every text
Compare(v, op, b) ==
    IF b.t = "nil" THEN FALSE
    ELSE IF b.t = "bool" THEN compareInt(v, op, IF b.b THEN 1 ELSE 0)
    ELSE IF IsNumeric(b) THEN compareInt(v, op, NumericOf(b))
    ELSE op \in {"!=", "<", "<="}

\* v IS b: no stored value is NULL
IsValue(v, b) ==
    IF b.t = "nil" THEN FALSE
    ELSE IF b.t = "bool" THEN v = (IF b.b THEN 1 ELSE 0)
    ELSE IsNumeric(b) /\ v = NumericOf(b)

holdsOf(v, op, values) ==
    IF op = "IN" THEN \E i \in 1..Len(values) : Compare(v, "=", values[i])
    ELSE IF op = "IS" THEN IsValue(v, values[1])
    ELSE Compare(v, op, values[1])

\* the row satisfies the condition c, of the form `<column> <op> ...`
holdsTokens(row, toks, values) == holdsOf(row[toks[1]], toks[2], values)

Holds(row, c) == holdsTokens(row, Split(c.Expr, " "), c.Values)

matchingOf(table, conds) ==
    SelectSeq(table, LAMBDA row : \A i \in 1..Len(conds) : Holds(row, conds[i]))

\* the rows of the table the WHERE clause of the statement keeps
Matching(table, stmt) ==
    matchingOf(table, BoundConditions(Conditions(stmt.Query), stmt.Values))

\* rows in the order of column, stable on the rowid order
RECURSIVE insertBy(_, _, _, _)
insertBy(row, sorted, column, desc) ==
    IF sorted = <<>> THEN <<row>>
    ELSE IF (IF desc THEN Head(sorted)[column] >= row[column]
             ELSE Head(sorted)[column] <= row[column])
    THEN <<Head(sorted)>> \o insertBy(row, Tail(sorted), column, desc)
    ELSE <<row>> \o sorted

RECURSIVE SortedBy(_, _, _)
SortedBy(rows, column, desc) ==
    IF rows = <<>> THEN <<>>
    ELSE insertBy(rows[Len(rows)],
                  SortedBy(SubSeq(rows, 1, Len(rows) - 1), column, desc),
                  column, desc)

\* ORDER BY with one term `<column>[ desc]`
Ordered(rows, order) ==
    IF order = "" THEN rows
    ELSE SortedBy(rows, Before(order, " "), After(order, " ") = "desc")

\* LIMIT and OFFSET: a negative limit is no limit
pageOf(rows, limit, offset) ==
    IF offset >= Len(rows) THEN <<>>
    ELSE SubSeq(rows, offset + 1,
                IF limit < 0 \/ offset + limit > Len(rows) THEN Len(rows)
                ELSE offset + limit)

Paged(rows, query) ==
    IF LimitText(query) = "" THEN rows
    ELSE pageOf(rows, ParseInt(LimitText(query)).n,
                IF OffsetText(query) = "" THEN 0
                ELSE ParseInt(OffsetText(query)).n)

\* the result columns of a row
projectOf(row, columns) ==
    IF columns = <<"*">> THEN row
    ELSE [c \in {columns[i] : i \in 1..Len(columns)} |-> row[c]]

Projected(rows, columns) ==
    [i \in 1..Len(rows) |-> projectOf(rows[i], Split(columns, ", "))]

\* QueryxContext on a select statement and the scan of its rows
ExecSelect(table, stmt) ==
    Projected(Paged(Ordered(Matching(table, stmt), OrderText(stmt.Query)),
                    stmt.Query),
              ColumnsText(stmt.Query))

\* QueryRowxContext on a count statement and the scan of its one value
ExecCount(table, stmt) == Len(Matching(table, stmt))

notMatchingOf(table, conds) ==
    SelectSeq(table, LAMBDA row : \E i \in 1..Len(conds) : ~Holds(row, conds[i]))

\* ExecContext on a delete statement: the rows it leaves
ExecDelete(table, stmt) ==
    notMatchingOf(table, BoundConditions(Conditions(stmt.Query), stmt.Values))

\* the tables an update statement can leave: the same rows, column a of
\* each rewritten or not
RewritesOf(table) ==
    {[i \in DOMAIN table |-> StoredRow(table[i].id, f[i])] :
        f \in [DOMAIN table -> ColumnValues]}

(***************************************************************************)
(* The table handlers.                                                      *)
(***************************************************************************)
NoAnswer == [status |-> 0, kind |-> "none", err |-> NoErr,
             ContentRange |-> "", body |-> <<>>]

\* the request is at its handler: no statement executed, no answer written
Received ==
    [pc |-> "received", op |-> "", log |-> <<>>, rows |-> <<>>, seen |-> <<>>,
     counted |-> <<>>, writes |-> 0, answer |-> NoAnswer]

\* server.responseError
AnswerError(err) ==
    [status |-> responseError(err), kind |-> "error", err |-> err,
     ContentRange |-> "", body |-> <<>>]

\* the handler panics: net/http recovers and drops the connection
AnswerPanic ==
    [status |-> 0, kind |-> "panic", err |-> NoErr, ContentRange |-> "",
     body |-> <<>>]

\* server.responseData, with the headers set before it
AnswerData(status, contentRange, body) ==
    [status |-> status, kind |-> "data", err |-> NoErr,
     ContentRange |-> contentRange, body |-> body]

\* server.responseEmptyBody
AnswerEmpty(status) ==
    [status |-> status, kind |-> "empty", err |-> NoErr, ContentRange |-> "",
     body |-> <<>>]

Executed(stmt) == [Query |-> stmt.Query, Values |-> stmt.Values]

\* the handler op returns with answer a
answered(op, a) == [run EXCEPT !.pc = "done", !.op = op, !.answer = a]

\* the return of a handler whose statement did not compile
compileFailed(op, stmt) ==
    answered(op, IF stmt.outcome = "panic" THEN AnswerPanic
                 ELSE AnswerError(stmt.err))

\* handleQueryTableOrView up to the scan of the rows
afterSelect(stmt) ==
    IF stmt.outcome # "ok" THEN compileFailed("handleQueryTableOrView", stmt)
    ELSE [run EXCEPT !.pc = "selected", !.op = "handleQueryTableOrView",
                     !.log = Append(@, Executed(stmt)),
                     !.rows = ExecSelect(db, stmt), !.seen = db]

\* the end of handleQueryTableOrView: the headers and responseData
dataAnswered(status, header, log) ==
    IF header.outcome = "panic"
    THEN [run EXCEPT !.pc = "done", !.log = log, !.counted = db,
                     !.answer = AnswerPanic]
    ELSE [run EXCEPT !.pc = "done", !.log = log, !.counted = db,
                     !.answer = AnswerData(status, header.header, run.rows)]

countAnswered(countStmt, total) ==
    IF countStmt.outcome # "ok"
    THEN compileFailed("handleQueryTableOrView", countStmt)
    ELSE dataAnswered(206, CompileContentRangeHeader(req, FormatInt(total)),
                      Append(run.log, Executed(countStmt)))

\* handleQueryTableOrView from ParsePreferenceFromRequest on
afterPreference(preference, countStmt) ==
    IF preference.outcome # "ok"
    THEN answered("handleQueryTableOrView", AnswerError(preference.err))
    ELSE IF preference.Count = countExact
    THEN countAnswered(countStmt, ExecCount(db, countStmt))
    ELSE dataAnswered(200, CompileContentRangeHeader(req, "*"), run.log)

\* a handler with one statement, once it is compiled: ExecContext returns
\* nil, leaving the rows written, or the error of the engine
afterExec(op, stmt, status, err) ==
    IF stmt.outcome # "ok" THEN compileFailed(op, stmt)
    ELSE IF err # NoErr
    THEN [run EXCEPT !.pc = "done", !.op = op,
                     !.log = Append(@, Executed(stmt)),
                     !.answer = AnswerError(err)]
    ELSE [run EXCEPT !.pc = "done", !.op = op,
                     !.log = Append(@, Executed(stmt)),
                     !.answer = AnswerEmpty(status)]

\* the errors of the engine: none, or a constraint the statement violates
EngineErrors == {NoErr, PlainErr("sqlite", "constraint failed")}

\* the middlewares answer in place of the handler
refused(op) == answered(op, AnswerError(middlewares(opts, req)))

\* GET /{table}: the select statement is compiled and executed
QuerySelect ==
    /\ run.pc = "received"
    /\ \E keyOrder \in KeyOrders(req) :
           run' = IF Passes THEN afterSelect(CompileAsSelect(req, keyOrder))
                  ELSE refused("handleQueryTableOrView")
    /\ UNCHANGED <<db, mig, srv, cache, opts, family, req, res, arg, ret>>

\* GET /{table}, after the rows are scanned: the preference, the count
\* statement and the answer
QueryCount ==
    /\ run.pc = "selected"
    /\ \E keyOrder \in KeyOrders(req) :
           run' = afterPreference(ParsePreferenceFromRequest(req),
                                  CompileAsExactCount(req, keyOrder))
    /\ UNCHANGED <<db, mig, srv, cache, opts, family, req, res, arg, ret>>

\* another connection commits a write while the handler is between its two
\* statements
ConcurrentWrite ==
    /\ run.pc = "selected"
    /\ run.writes < MaxWrites
    /\ db' \in WritesOf(db)
    /\ run' = [run EXCEPT !.writes = @ + 1]
    /\ UNCHANGED <<mig, srv, cache, opts, family, req, res, arg, ret>>

\* the rows a statement that ran leaves: those of the statement when the
\* engine accepted it
rowsAfter(stmt, err, written) ==
    IF Passes /\ stmt.outcome = "ok" /\ err = NoErr THEN written ELSE db

\* POST /{table}; the rows an insert leaves are one row more, whatever its
\* values
HandleInsert ==
    /\ run.pc = "received"
    /\ \E err \in EngineErrors, written \in WritesOf(db) :
           /\ Len(written) > Len(db)
           /\ run' = IF Passes
                     THEN afterExec("handleInsertTable", CompileAsInsert(req),
                                    201, err)
                     ELSE refused("handleInsertTable")
           /\ db' = rowsAfter(CompileAsInsert(req), err, written)
    /\ req' = IF Passes /\ ParsePreferenceFromRequest(req).outcome = "ok"
              THEN requestAfterPayload(req) ELSE req
    /\ UNCHANGED <<mig, srv, cache, opts, family, res, arg, ret>>

\* PATCH /{table}; an update leaves the rows it found, rewritten
HandleUpdate ==
    /\ run.pc = "received"
    /\ \E keyOrder \in KeyOrders(req), err \in EngineErrors,
          written \in RewritesOf(db) :
           /\ run' = IF Passes
                     THEN afterExec("handleUpdateTable",
                                    CompileAsUpdate(req, keyOrder), 202, err)
                     ELSE refused("handleUpdateTable")
           /\ db' = rowsAfter(CompileAsUpdate(req, keyOrder), err, written)
    /\ req' = IF Passes THEN requestAfterPayload(req) ELSE req
    /\ UNCHANGED <<mig, srv, cache, opts, family, res, arg, ret>>

\* PUT /{table}: the handler writes no status of its own, which is 200
HandleUpdateSingleEntity ==
    /\ run.pc = "received"
    /\ \E keyOrder \in KeyOrders(req), err \in EngineErrors,
          written \in RewritesOf(db) :
           /\ run' = IF Passes
                     THEN afterExec("handleUpdateSingleEntity",
                                    CompileAsUpdateSingleEntry(req, keyOrder),
                                    200, err)
                     ELSE refused("handleUpdateSingleEntity")
           /\ db' = rowsAfter(CompileAsUpdateSingleEntry(req, keyOrder), err,
                              written)
    /\ req' = IF Passes THEN requestAfterPayload(req) ELSE req
    /\ UNCHANGED <<mig, srv, cache, opts, family, res, arg, ret>>

\* DELETE /{table}
HandleDelete ==
    /\ run.pc = "received"
    /\ \E keyOrder \in KeyOrders(req), err \in EngineErrors :
           /\ run' = IF Passes
                     THEN afterExec("handleDeleteTable",
                                    CompileAsDelete(req, keyOrder), 202, err)
                     ELSE refused("handleDeleteTable")
           /\ db' = rowsAfter(CompileAsDelete(req, keyOrder), err,
                              ExecDelete(db, CompileAsDelete(req, keyOrder)))
    /\ UNCHANGED <<mig, srv, cache, opts, family, req, res, arg, ret>>

\* the requests the handlers are given: filters on the stored columns (one
\* of them malformed, one with an unknown operator), pages by parameter and
\* by header, an order, and the preferences on the count
HandlerQueries ==
    {<<>>,
     <<[k |-> "a", v |-> "eq.1"]>>, <<[k |-> "a", v |-> "gt.1"]>>,
     <<[k |-> "a", v |-> "in.(1,2)"]>>, <<[k |-> "a", v |-> "is.null"]>>,
     <<[k |-> "a", v |-> "fts.1"]>>,
     <<[k |-> "a", v |-> "eq.1"], [k |-> "id", v |-> "eq.1"]>>,
     <<[k |-> "limit", v |-> "1"]>>,
     <<[k |-> "a", v |-> "eq.1"], [k |-> "limit", v |-> "1"]>>,
     <<[k |-> "limit", v |-> "1"], [k |-> "offset", v |-> "1"]>>,
     <<[k |-> "order", v |-> "a.desc"], [k |-> "limit", v |-> "1"]>>,
     <<[k |-> "select", v |-> "a"], [k |-> "a", v |-> "eq.2"]>>}

HandlerPrefers == {"", "count=exact", "count=planned"}
HandlerRanges == {"", "0-0", "1-", "3"}
HandlerContentTypes == {"application/json", "text/plain"}

HandlerRequests ==
    {Request("test", q, rg, pf, ct, ObjectDoc(Row(1))) :
        q \in HandlerQueries, rg \in HandlerRanges, pf \in HandlerPrefers,
        ct \in HandlerContentTypes}

InitHandler ==
    /\ opts = TestServer
    /\ family = "handler"
    /\ req \in HandlerRequests
    /\ res = NoResult
    /\ arg = NoArg
    /\ ret = NoRet
    /\ db \in Databases
    /\ run = Received
    /\ mig = NoMig
    /\ srv = NoSrv
    /\ cache = NoCache

NextHandler ==
    \/ QuerySelect
    \/ QueryCount
    \/ ConcurrentWrite
    \/ HandleInsert
    \/ HandleUpdate
    \/ HandleUpdateSingleEntity
    \/ HandleDelete

SpecHandler == InitHandler /\ [][NextHandler]_vars

(***************************************************************************)
(* The exact count of a GET.                                                *)
(***************************************************************************)
\* the filters of a request: its query parameters but the reserved ones
FiltersOf(r) == SelectSeq(r.query, LAMBDA p : ToLower(p.k) \notin ReservedKeys)

\* the numbers of the list `(n,m,...)`
ListedNumbers(list) ==
    {DigitsValue(Split(SubSeq(list, 2, Len(list) - 1), ",")[i], 0) :
        i \in 1..Len(Split(SubSeq(list, 2, Len(list) - 1), ","))}

\* the stored integer v passes the filter `<op>.<value>` of the grammar
PassesFilter(v, op, value) ==
    IF op = "eq" THEN v = DigitsValue(value, 0)
    ELSE IF op = "gt" THEN v > DigitsValue(value, 0)
    ELSE IF op = "in" THEN v \in ListedNumbers(value)
    ELSE FALSE

\* the number of rows of the table that pass every filter of the request
MatchCount(table, filters) ==
    Cardinality({i \in 1..Len(table) :
        \A j \in 1..Len(filters) :
            PassesFilter(table[i][filters[j].k], Before(filters[j].v, "."),
                         After(filters[j].v, "."))})

\* handleQueryTableOrView has answered the request with its rows, and no
\* other connection wrote meanwhile
QueryAnswered ==
    /\ run.pc = "done"
    /\ run.op = "handleQueryTableOrView"
    /\ run.answer.kind = "data"
    /\ run.writes = 0

\* the conditions of a statement with their parameters, as a set
ConditionSet(stmt) ==
    {BoundConditions(Conditions(stmt.Query), stmt.Values)[i] :
        i \in 1..Len(Conditions(stmt.Query))}

\* the second statement of the log counts the rows of the conditions of the
\* first, with no order and no page
CountStatementRan ==
    /\ Len(run.log) = 2
    /\ StartsWith(run.log[2].Query, "select count(1) from " \o req.table)
    /\ Len(Conditions(run.log[2].Query)) = Len(Conditions(run.log[1].Query))
    /\ ConditionSet(run.log[2]) = ConditionSet(run.log[1])
    /\ Len(run.log[2].Values) = Len(run.log[1].Values)
    /\ TextIndex(run.log[2].Query, " order by ", 1) = 0
    /\ TextIndex(run.log[2].Query, " limit ", 1) = 0
    /\ TextIndex(run.log[2].Query, " offset ", 1) = 0

\* the total of a Content-Range header
TotalOf(contentRange) == After(contentRange, "/")

\* C23 as stated: for a GET with `Prefer: count=exact` the server runs
\* `select count(1) from <table>` with the filter clauses and values of the
\* select statement and no ORDER BY, LIMIT or OFFSET, answers with 206 and
\* reports as the total of Content-Range the number of rows that match the
\* filters; without count=exact the status is 200 and the total is `*`.
C23_TotalInContentRange ==
    QueryAnswered
    => /\ req.Prefer = "count=exact"
            => /\ CountStatementRan
               /\ run.answer.status = 206
               /\ TotalOf(run.answer.ContentRange)
                    = FormatInt(MatchCount(db, FiltersOf(req)))
       /\ req.Prefer = ""
            => /\ Len(run.log) = 1
               /\ run.answer.status = 200
               /\ TotalOf(run.answer.ContentRange) = "*"

\* C23 as amended: the count statement runs and the status is 206 with
\* count=exact, 200 without; the total (the number of matching rows, or `*`)
\* is reported in Content-Range when the pagination of the request
\* resolves, and the answer has no Content-Range header when it does not.
C23_TotalWhenPaged ==
    QueryAnswered
    => /\ req.Prefer = "count=exact"
            => /\ CountStatementRan
               /\ run.answer.status = 206
               /\ IF getLimitOffset(req).outcome = "ok"
                  THEN TotalOf(run.answer.ContentRange)
                         = FormatInt(MatchCount(db, FiltersOf(req)))
                  ELSE run.answer.ContentRange = ""
       /\ req.Prefer = ""
            => /\ Len(run.log) = 1
               /\ run.answer.status = 200
               /\ IF getLimitOffset(req).outcome = "ok"
                  THEN TotalOf(run.answer.ContentRange) = "*"
                  ELSE run.answer.ContentRange = ""

\* one of two matching rows is returned and both are counted
C23_Witness ==
    /\ QueryAnswered
    /\ req.Prefer = "count=exact"
    /\ req.query = <<[k |-> "a", v |-> "eq.1"], [k |-> "limit", v |-> "1"]>>
    /\ Len(db) = 2
    /\ Len(run.answer.body) = 1
    /\ run.answer.status = 206
    /\ run.answer.ContentRange = "0-0/2"

(***************************************************************************)
(* The migrator.  The migrations directory holds the versions 1..n, each   *)
(* with an up and a down script that the engine accepts or not; version 0  *)
(* is the schema before any migration (the nil version of the library).    *)
(***************************************************************************)
MaxMigrations == 2
MaxStep == 2

migrationStepAll == -1

isApplyAllStep(step) == step <= 0

Scripts == [up : BOOLEAN, down : BOOLEAN]

SourceDirs == UNION {[1..n -> Scripts] : n \in 0..MaxMigrations}

\* the errors of migrate.Migrate
ErrNoChange == PlainErr("ErrNoChange", "no change")
ErrFirstNotExist == PlainErr("PathError", "first")
ErrNotExist == PlainErr("ErrNotExist", "file does not exist")
ErrShortLimit == PlainErr("ErrShortLimit", "limit short")
ErrDirty == PlainErr("ErrDirty", "dirty database version")
ErrScript == PlainErr("sqlite", "migration failed")

Plan(count, err) == [count |-> count, err |-> err]

\* Migrate.readUp from version `from` of n: the number of migrations it
\* sends, limit -1 being no limit, and the error it sends after them
readUp(n, from, limit) ==
    IF from = 0 /\ n = 0 THEN Plan(0, ErrFirstNotExist)
    ELSE IF limit = -1
    THEN (IF n - from = 0 THEN Plan(0, ErrNoChange) ELSE Plan(n - from, NoErr))
    ELSE IF n - from = 0 THEN Plan(0, ErrNotExist)
    ELSE IF n - from < limit THEN Plan(n - from, ErrShortLimit)
    ELSE Plan(limit, NoErr)

\* Migrate.readDown from version `from`
readDown(from, limit) ==
    IF limit = -1
    THEN (IF from = 0 THEN Plan(0, ErrNoChange) ELSE Plan(from, NoErr))
    ELSE IF from = 0 THEN Plan(0, ErrNotExist)
    ELSE IF from < limit THEN Plan(from, ErrShortLimit)
    ELSE Plan(limit, NoErr)

Schema(version, dirty, err) == [version |-> version, dirty |-> dirty, err |-> err]

\* Migrate.runMigrations on count up scripts from version v: the version is
\* set dirty before each script and clean after it; a script that fails
\* ends the run
RECURSIVE runUp(_, _, _, _)
runUp(source, v, count, err) ==
    IF count = 0 THEN Schema(v, FALSE, err)
    ELSE IF source[v + 1].up THEN runUp(source, v + 1, count - 1, err)
    ELSE Schema(v + 1, TRUE, ErrScript)

RECURSIVE runDown(_, _, _, _)
runDown(source, v, count, err) ==
    IF count = 0 THEN Schema(v, FALSE, err)
    ELSE IF source[v].down THEN runDown(source, v - 1, count - 1, err)
    ELSE Schema(v - 1, TRUE, ErrScript)

upOf(m, plan) == runUp(m.source, m.version, plan.count, plan.err)
downOf(m, plan) == runDown(m.source, m.version, plan.count, plan.err)

\* Migrate.Up, Migrate.Down and Migrate.Steps(n) for n # 0
migrateUp(m) ==
    IF m.dirty THEN Schema(m.version, TRUE, ErrDirty)
    ELSE upOf(m, readUp(Len(m.source), m.version, -1))

migrateDown(m) ==
    IF m.dirty THEN Schema(m.version, TRUE, ErrDirty)
    ELSE downOf(m, readDown(m.version, -1))

migrateSteps(m, n) ==
    IF m.dirty THEN Schema(m.version, TRUE, ErrDirty)
    ELSE IF n > 0 THEN upOf(m, readUp(Len(m.source), m.version, n))
    ELSE downOf(m, readDown(m.version, 0 - n))

\* handleMigrateError returning every error of the library but nil
handleMigrateError_strict(migrateErr) == migrateErr

\* handleMigrateError: nil, ErrNoChange and the PathError of an empty
\* directory are no error
handleMigrateError(migrateErr) ==
    IF migrateErr = NoErr THEN NoErr
    ELSE IF migrateErr = ErrNoChange THEN NoErr
    ELSE IF migrateErr = ErrFirstNotExist THEN NoErr
    ELSE PlainErr("up", migrateErr.kind)

\* dbMigrator.Up and dbMigrator.Down: the schema they leave and the error
\* they return
migratorUp(m, step) ==
    IF isApplyAllStep(step) THEN migrateUp(m) ELSE migrateSteps(m, step)

migratorDown(m, step) ==
    IF isApplyAllStep(step) THEN migrateDown(m) ELSE migrateSteps(m, 0 - step)

\* the migrator after the call op(step) left the schema s
called(op, step, s) ==
    [source |-> mig.source, version |-> s.version, dirty |-> s.dirty,
     op |-> op, step |-> step, before |-> mig.version, wasDirty |-> mig.dirty,
     err |-> handleMigrateError(s.err)]

StepValues == migrationStepAll..MaxStep

Up ==
    /\ mig.op # "off"
    /\ \E step \in StepValues : mig' = called("Up", step, migratorUp(mig, step))
    /\ UNCHANGED <<db, run, srv, cache, opts, family, req, res, arg, ret>>

Down ==
    /\ mig.op # "off"
    /\ \E step \in StepValues :
           mig' = called("Down", step, migratorDown(mig, step))
    /\ UNCHANGED <<db, run, srv, cache, opts, family, req, res, arg, ret>>

\* NewMigrator on a database no migration was applied to
InitMigrator ==
    /\ opts = TestServer
    /\ family = "migrate"
    /\ req = Request("test", <<>>, "", "", "", ObjectDoc(Row(1)))
    /\ res = NoResult
    /\ arg = NoArg
    /\ ret = NoRet
    /\ IdleHandlers
    /\ srv = NoSrv
    /\ cache = NoCache
    /\ \E source \in SourceDirs :
           mig = [source |-> source, version |-> 0, dirty |-> FALSE,
                  op |-> "new", step |-> 0, before |-> 0, wasDirty |-> FALSE,
                  err |-> NoErr]

NextMigrator ==
    \/ Up
    \/ Down

SpecMigrator == InitMigrator /\ [][NextMigrator]_vars

\* the call left of mig started on a clean schema
CalledClean(op) == mig.op = op /\ ~mig.wasDirty

\* the scripts the call had to run, from the version it started at, succeed
PendingUpOk == \A i \in (mig.before + 1)..Len(mig.source) : mig.source[i].up
PendingDownOk == \A i \in 1..mig.before : mig.source[i].down

\* no migration remained in the direction of the call
NoneRemained ==
    IF mig.op = "Up" THEN mig.before = Len(mig.source) ELSE mig.before = 0

\* the number of versions the call moved the schema by, in its direction
Moved ==
    IF mig.op = "Up" THEN mig.version - mig.before
    ELSE mig.before - mig.version

\* C24 as stated: Up and Down with the apply-all step return no error from
\* every migration state, and leave the version unchanged when no migration
\* is pending in their direction; with a positive step they apply at most
\* that many migrations and, when no migration remains in their direction,
\* return an error and leave the version unchanged.
C24_EveryState ==
    mig.op \in {"Up", "Down"}
    => IF isApplyAllStep(mig.step)
       THEN /\ mig.err = NoErr
            /\ NoneRemained => mig.version = mig.before
       ELSE /\ Moved >= 0
            /\ Moved <= mig.step
            /\ NoneRemained => (mig.err # NoErr /\ mig.version = mig.before)

\* C24 as amended: from a clean schema whose pending scripts succeed, Up
\* and Down with the apply-all step return no error, reach the last version
\* or version 0, and change nothing when no migration is pending; with a
\* positive step, from a clean schema, they apply at most that many
\* migrations and, when no migration remains in their direction, leave the
\* version unchanged and return an error, except Up on an empty migrations
\* directory, which returns no error.
C24_CleanStates ==
    /\ (CalledClean("Up") /\ isApplyAllStep(mig.step) /\ PendingUpOk)
         => /\ mig.err = NoErr
            /\ mig.version = Len(mig.source)
            /\ ~mig.dirty
    /\ (CalledClean("Down") /\ isApplyAllStep(mig.step) /\ PendingDownOk)
         => /\ mig.err = NoErr
            /\ mig.version = 0
            /\ ~mig.dirty
    /\ (mig.op \in {"Up", "Down"} /\ ~mig.wasDirty /\ ~isApplyAllStep(mig.step))
         => /\ Moved >= 0
            /\ Moved <= mig.step
            /\ NoneRemained
                 => /\ mig.version = mig.before
                    /\ mig.err = NoErr <=> (mig.op = "Up" /\ mig.source = <<>>)

\* Up with the apply-all step is run again at the last of two versions
C24_Witness ==
    /\ CalledClean("Up")
    /\ isApplyAllStep(mig.step)
    /\ Len(mig.source) = 2
    /\ mig.before = 2
    /\ mig.version = 2
    /\ mig.err = NoErr

(***************************************************************************)
(* The life of the servers.  srv holds what dbServer.Start works on: the   *)
(* file at the socket path ("none", a "stale" one left by an earlier run,  *)
(* or the one "bound" by the listener), the listener, the requests being   *)
(* served, the done channel, and where Start stands; and next to it the    *)
(* caller of Start (a test, or the serve command) and the two side         *)
(* servers.                                                                 *)
(***************************************************************************)
MaxConns == 3

\* what the calls of Start before `<-done` can come to
ListenOutcomes == {"ok", "mkdir", "remove", "listen"}

\* Start returning at once when a call fails, having removed the stale file
\* when RemoveAll got that far
listenFailed(s, outcome) ==
    [s EXCEPT !.pc = "returned", !.failed = TRUE,
              !.file = IF s.socket /\ outcome = "listen" THEN "none" ELSE @]

\* Start going on to wait for done with no listener when a call fails
afterListen_waits(s, outcome) ==
    IF outcome = "ok"
    THEN [s EXCEPT !.pc = "waiting", !.listener = "open", !.serve = "spawned",
                   !.file = IF s.socket THEN "bound" ELSE @]
    ELSE [s EXCEPT !.pc = "waiting", !.failed = TRUE]

\* Start up to `<-done`: MkdirAll, RemoveAll and net.Listen on the socket, or
\* net.Listen on the address, then `go server.server.Serve(l)`
afterListen(s, outcome) ==
    IF outcome = "ok"
    THEN [s EXCEPT !.pc = "waiting", !.listener = "open", !.serve = "spawned",
                   !.file = IF s.socket THEN "bound" ELSE @]
    ELSE listenFailed(s, outcome)

\* closing a listener: a unix listener unlinks the file it bound
closed(s) ==
    [s EXCEPT !.listener = IF @ = "open" THEN "closed" ELSE @,
              !.file = IF s.listener = "open" /\ s.socket THEN "none" ELSE @]

\* the servers run while the process does
Alive == srv.pc # "off" /\ srv.main # "exited"

StartListen ==
    /\ Alive
    /\ srv.pc = "init"
    /\ \E outcome \in ListenOutcomes :
           /\ (outcome \in {"mkdir", "remove"} => srv.socket)
           /\ srv' = afterListen(srv, outcome)
    /\ UNCHANGED <<db, run, mig, cache, opts, family, req, res, arg, ret>>

\* Shutdown has been called on the http.Server
InShutdown(s) == s.pc \in {"shutdown", "closing", "removing", "returned"} /\ ~s.failed

\* the goroutine of `go server.server.Serve(l)` gets to run: Serve tracks the
\* listener, or closes it and returns when Shutdown came first
serveOf(s) ==
    IF InShutdown(s) THEN [closed(s) EXCEPT !.serve = "returned"]
    ELSE [s EXCEPT !.serve = "running"]

ServeRun ==
    /\ Alive
    /\ srv.serve = "spawned"
    /\ srv' = serveOf(srv)
    /\ UNCHANGED <<db, run, mig, cache, opts, family, req, res, arg, ret>>

\* Serve finds its listener closed and returns
ServeStop ==
    /\ Alive
    /\ srv.serve = "running"
    /\ srv.listener = "closed"
    /\ srv' = [srv EXCEPT !.serve = "returned"]
    /\ UNCHANGED <<db, run, mig, cache, opts, family, req, res, arg, ret>>

\* the Serve goroutine takes a request
Accept ==
    /\ Alive
    /\ srv.serve = "running"
    /\ srv.listener = "open"
    /\ srv.conns < MaxConns
    /\ srv' = [srv EXCEPT !.conns = @ + 1]
    /\ UNCHANGED <<db, run, mig, cache, opts, family, req, res, arg, ret>>

\* a request is answered
Finish ==
    /\ Alive
    /\ srv.conns > 0
    /\ srv' = [srv EXCEPT !.conns = @ - 1]
    /\ UNCHANGED <<db, run, mig, cache, opts, family, req, res, arg, ret>>

\* `<-done` returns and http.Server.Shutdown closes the listeners Serve
\* tracks
shutdownOf(s) ==
    IF s.serve = "running" THEN [closed(s) EXCEPT !.pc = "shutdown"]
    ELSE [s EXCEPT !.pc = "shutdown"]

StartDone ==
    /\ Alive
    /\ srv.pc = "waiting"
    /\ srv.done
    /\ srv' = shutdownOf(srv)
    /\ UNCHANGED <<db, run, mig, cache, opts, family, req, res, arg, ret>>

\* Shutdown returns: no request is left, or its context has expired
ShutdownReturn ==
    /\ Alive
    /\ srv.pc = "shutdown"
    /\ \E expired \in BOOLEAN :
           /\ srv.conns = 0 \/ expired
           /\ srv' = [srv EXCEPT !.pc = "closing", !.expired = expired]
    /\ UNCHANGED <<db, run, mig, cache, opts, family, req, res, arg, ret>>

\* server.listener.Close()
StartClose ==
    /\ Alive
    /\ srv.pc = "closing"
    /\ srv' = [closed(srv) EXCEPT !.pc = "removing"]
    /\ UNCHANGED <<db, run, mig, cache, opts, family, req, res, arg, ret>>

\* os.Remove(server.socket), and Start returns
StartRemove ==
    /\ Alive
    /\ srv.pc = "removing"
    /\ srv' = [srv EXCEPT !.pc = "returned",
                          !.file = IF srv.socket THEN "none" ELSE @]
    /\ UNCHANGED <<db, run, mig, cache, opts, family, req, res, arg, ret>>

\* the caller of Start closes done
CloseDone ==
    /\ srv.main = "test"
    /\ ~srv.done
    /\ srv' = [srv EXCEPT !.done = TRUE]
    /\ UNCHANGED <<db, run, mig, cache, opts, family, req, res, arg, ret>>

\* a server as NewServer leaves it, in the hands of `caller`
NewServer(socket, file, caller, metrics, pprof) ==
    [socket |-> socket, file |-> file, listener |-> "nil", serve |-> "none",
     conns |-> 0,
     done |-> FALSE, pc |-> "init", failed |-> FALSE, expired |-> FALSE,
     main |-> caller, dbOpen |-> TRUE, metrics |-> metrics, pprof |-> pprof]

SocketFiles == {"none", "stale"}

InitLifecycle ==
    /\ opts = TestServer
    /\ family = "lifecycle"
    /\ req = Request("test", <<>>, "", "", "", ObjectDoc(Row(1)))
    /\ res = NoResult
    /\ arg = NoArg
    /\ ret = NoRet
    /\ IdleHandlers
    /\ mig = NoMig
    /\ cache = NoCache

\* Start called by a test, which holds done: the test of the unix socket
InitStart ==
    /\ InitLifecycle
    /\ \E socket \in BOOLEAN, file \in SocketFiles :
           /\ (file = "stale" => socket)
           /\ srv = NewServer(socket, file, "test", "off", "off")

StartSteps ==
    \/ StartListen
    \/ StartDone
    \/ ShutdownReturn
    \/ StartClose
    \/ StartRemove

NextStart ==
    \/ StartSteps
    \/ ServeRun
    \/ ServeStop
    \/ Accept
    \/ Finish
    \/ CloseDone

\* the goroutine of Start is scheduled as long as it can take a step
SpecStart == InitStart /\ [][NextStart]_vars /\ WF_vars(StartSteps)

\* C25: with a unix socket path, Start removes a stale socket file, listens
\* on the socket and serves; after done is closed Start eventually returns,
\* and once it has returned after listening, the listener is closed and no
\* file is left at the socket path; when the listener cannot be created,
\* Start has returned without waiting for done.
C25_StartAndStop ==
    /\ [](/\ srv.pc = "waiting"
               => /\ srv.listener = "open"
                  /\ srv.socket => srv.file = "bound"
          /\ (srv.pc = "returned" /\ ~srv.failed)
               => /\ srv.listener = "closed"
                  /\ srv.file = "none"
          /\ srv.failed => (srv.pc = "returned" /\ srv.listener = "nil"))
    /\ (srv.done ~> srv.pc = "returned")

\* Start has come back from serving on a socket path that held a stale file
C25_Witness ==
    /\ srv.pc = "returned"
    /\ srv.socket
    /\ srv.done
    /\ ~srv.failed
    /\ srv.file = "none"
    /\ srv.listener = "closed"

(***************************************************************************)
(* The serve command.                                                       *)
(***************************************************************************)
SideServers == {"metrics", "pprof"}

\* metricsServer.Start and pprofServer.Start: a server that is disabled
\* returns at once, one that is enabled waits for done and shuts down
SideStart ==
    /\ Alive
    /\ \E x \in SideServers :
           /\ srv[x] \in {"init", "disabled"}
           /\ srv' = [srv EXCEPT ![x] = IF @ = "init" THEN "waiting"
                                        ELSE "returned"]
    /\ UNCHANGED <<db, run, mig, cache, opts, family, req, res, arg, ret>>

SideDone ==
    /\ Alive
    /\ srv.done
    /\ \E x \in SideServers :
           /\ srv[x] = "waiting"
           /\ srv' = [srv EXCEPT ![x] = "shutdown"]
    /\ UNCHANGED <<db, run, mig, cache, opts, family, req, res, arg, ret>>

SideShutdown ==
    /\ Alive
    /\ \E x \in SideServers :
           /\ srv[x] = "shutdown"
           /\ srv' = [srv EXCEPT ![x] = "returned"]
    /\ UNCHANGED <<db, run, mig, cache, opts, family, req, res, arg, ret>>

\* `<-sigs` returns: SIGINT or SIGTERM has arrived
Signal ==
    /\ srv.main = "serving"
    /\ srv' = [srv EXCEPT !.main = "signalled"]
    /\ UNCHANGED <<db, run, mig, cache, opts, family, req, res, arg, ret>>

\* RunE returns nil, its deferred calls run in turn: cancel() closes done,
\* db.Close() closes the database, and the process exits
ServeReturn ==
    /\ srv.main \in {"signalled", "cancelled", "closed"}
    /\ srv' = IF srv.main = "signalled"
              THEN [srv EXCEPT !.main = "cancelled", !.done = TRUE]
              ELSE IF srv.main = "cancelled"
              THEN [srv EXCEPT !.main = "closed", !.dbOpen = FALSE]
              ELSE [srv EXCEPT !.main = "exited"]
    /\ UNCHANGED <<db, run, mig, cache, opts, family, req, res, arg, ret>>

SideStates == {"init", "disabled"}

\* the serve command after its three `go ... Start(done)`
InitServe ==
    /\ InitLifecycle
    /\ \E socket \in BOOLEAN, file \in SocketFiles,
          metrics \in SideStates, pprof \in SideStates :
           /\ (file = "stale" => socket)
           /\ srv = NewServer(socket, file, "serving", metrics, pprof)

NextServe ==
    \/ StartListen
    \/ ServeRun
    \/ ServeStop
    \/ Accept
    \/ Finish
    \/ StartDone
    \/ ShutdownReturn
    \/ StartClose
    \/ StartRemove
    \/ SideStart
    \/ SideDone
    \/ SideShutdown
    \/ Signal
    \/ ServeReturn

SpecServe == InitServe /\ [][NextServe]_vars

\* every Start has come to its end
ServersStopped ==
    /\ srv.pc = "returned"
    /\ srv.metrics = "returned"
    /\ srv.pprof = "returned"

\* C29: after SIGINT or SIGTERM the serve command does not close the
\* database nor return before the Start of the API server has gone through
\* its shutdown (Shutdown returned, listener closed, socket file removed),
\* and likewise for the metrics and pprof servers.
C29_WaitsForServers ==
    (srv.pc # "off" /\ srv.main \in {"closed", "exited"})
    => /\ ServersStopped
       /\ srv.listener # "open"
       /\ srv.file # "bound"

(***************************************************************************)
(* readFileWithStatCache.  The file has a modification time and, as its    *)
(* content, the version written at that time; 0 stands for no stat (nil)   *)
(* and for no content (nil).  The closure is called by concurrent          *)
(* requests; mu is held by at most one writer, and the file is modified    *)
(* and fails to be read whenever it does.                                   *)
(***************************************************************************)
MaxCallers == 2
MaxModTime == 2

Callers == 1..MaxCallers

NilStat == 0
NilContent == 0

\* a caller outside the closure
Outside == [pc |-> "idle", stat |-> NilStat, err |-> FALSE, content |-> NilContent]

\* the closure returns content with a nil error, or nil with an error
returned(content) ==
    [pc |-> "done", stat |-> NilStat, err |-> FALSE, content |-> content]
returnedErr ==
    [pc |-> "done", stat |-> NilStat, err |-> TRUE, content |-> NilContent]

\* fast(): os.Stat
fastStat(ok) ==
    IF ok THEN [pc |-> "fast", stat |-> cache.mtime, err |-> FALSE,
                content |-> NilContent]
    ELSE returnedErr

\* fast() under mu.RLock(), and what the closure makes of it
fast(stat) ==
    IF cache.lastStat = NilStat THEN [Outside EXCEPT !.pc = "slow"]
    ELSE IF cache.lastStat = stat THEN returned(cache.lastReadContent)
    ELSE [Outside EXCEPT !.pc = "slow"]

\* slow() from mu.Lock() to the assignments before os.ReadFile
slowStat(c, ok) ==
    IF ~ok THEN [cache EXCEPT !.callers[c] = returnedErr]
    ELSE IF cache.lastStat # NilStat /\ cache.lastStat = cache.mtime
    THEN [cache EXCEPT !.callers[c] = returned(cache.lastReadContent)]
    ELSE [cache EXCEPT !.callers[c] = [Outside EXCEPT !.pc = "read"],
                       !.mu = c,
                       !.lastStat = cache.mtime,
                       !.lastReadContent = NilContent]

\* slow() from os.ReadFile to mu.Unlock()
slowRead(c, ok) ==
    IF ~ok THEN [cache EXCEPT !.callers[c] = returnedErr, !.mu = 0]
    ELSE [cache EXCEPT !.callers[c] = returned(cache.mtime), !.mu = 0,
                       !.lastReadContent = cache.mtime]

CacheOn == cache.pc = "on"

\* a request calls the closure
CallReader ==
    /\ CacheOn
    /\ \E c \in Callers :
           /\ cache.callers[c].pc \in {"idle", "done"}
           /\ cache' = [cache EXCEPT !.callers[c] = [Outside EXCEPT !.pc = "stat"]]
    /\ UNCHANGED <<db, run, mig, srv, opts, family, req, res, arg, ret>>

FastStat ==
    /\ CacheOn
    /\ \E c \in Callers, ok \in BOOLEAN :
           /\ cache.callers[c].pc = "stat"
           /\ cache' = [cache EXCEPT !.callers[c] = fastStat(ok)]
    /\ UNCHANGED <<db, run, mig, srv, opts, family, req, res, arg, ret>>

Fast ==
    /\ CacheOn
    /\ cache.mu = 0
    /\ \E c \in Callers :
           /\ cache.callers[c].pc = "fast"
           /\ cache' = [cache EXCEPT !.callers[c] = fast(cache.callers[c].stat)]
    /\ UNCHANGED <<db, run, mig, srv, opts, family, req, res, arg, ret>>

SlowStat ==
    /\ CacheOn
    /\ cache.mu = 0
    /\ \E c \in Callers, ok \in BOOLEAN :
           /\ cache.callers[c].pc = "slow"
           /\ cache' = slowStat(c, ok)
    /\ UNCHANGED <<db, run, mig, srv, opts, family, req, res, arg, ret>>

SlowRead ==
    /\ CacheOn
    /\ \E c \in Callers, ok \in BOOLEAN :
           /\ cache.callers[c].pc = "read"
           /\ cache' = slowRead(c, ok)
    /\ UNCHANGED <<db, run, mig, srv, opts, family, req, res, arg, ret>>

\* the file is written anew
ModifyFile ==
    /\ CacheOn
    /\ cache.mtime < MaxModTime
    /\ cache' = [cache EXCEPT !.mtime = @ + 1]
    /\ UNCHANGED <<db, run, mig, srv, opts, family, req, res, arg, ret>>

\* readFileWithStatCache(file) on a file that exists
InitCache ==
    /\ opts = TestServer
    /\ family = "keyfile"
    /\ req = Request("test", <<>>, "", "", "", ObjectDoc(Row(1)))
    /\ res = NoResult
    /\ arg = NoArg
    /\ ret = NoRet
    /\ IdleHandlers
    /\ mig = NoMig
    /\ srv = NoSrv
    /\ cache = [pc |-> "on", mtime |-> 1, lastStat |-> NilStat,
                lastReadContent |-> NilContent, mu |-> 0,
                callers |-> [c \in Callers |-> Outside]]

NextCache ==
    \/ CallReader
    \/ FastStat
    \/ Fast
    \/ SlowStat
    \/ SlowRead
    \/ ModifyFile

SpecCache == InitCache /\ [][NextCache]_vars

\* C26: a call of the cached reader that returns a nil error returns bytes
\* that were read from the file, a version the file has held, and never the
\* nil content a failed read left behind, under any interleaving of callers,
\* modifications of the file and read failures.
C26_SuccessHasContent ==
    CacheOn
    => \A c \in Callers :
           (cache.callers[c].pc = "done" /\ ~cache.callers[c].err)
               => cache.callers[c].content \in 1..cache.mtime

(***************************************************************************)
(* Placeholders and parameters of a compiled statement.                    *)
(***************************************************************************)
InitBinding == InitFamily("binding")
SpecBinding == InitBinding /\ [][Next]_vars

StatementOps ==
    {"Select", "ExactCount", "Update", "UpdateSingleEntry", "Insert", "Delete"}

StatementCompiled == res.op \in StatementOps /\ res.out.outcome = "ok"

\* the names a request puts into the statement text: the table, the
\* filtered columns, the items of select, order and on_conflict, and the
\* keys of the payload's rows
Identifiers(r) ==
    {r.table}
      \cup {k \in QueryKeys(r) : isColumnName(k)}
      \cup {r.query[i].v : i \in {j \in 1..Len(r.query) : ~isColumnName(r.query[j].k)}}
      \cup RowKeys(r.Body.doc.rows)

PlainIdentifiers(r) == \A s \in Identifiers(r) : CountPlaceholders(s) = 0

\* the SET list of an update: its items in text order
SetText(query) == Before(After(query, " set "), " where ")
SetItems(query) ==
    IF SetText(query) = "" THEN <<>> ELSE SplitText(SetText(query), ", ")

\* the i-th placeholder of the SET list stands for the value the payload's
\* row gives to the i-th column of the list
SetBound(items, values, row) ==
    /\ Len(items) <= Len(values)
    /\ \A i \in 1..Len(items) :
           /\ Before(items[i], " = ?") \in DOMAIN row
           /\ values[i] = row[Before(items[i], " = ?")]

\* the conditions of the text, each with the parameters at the positions of
\* its placeholders, are the clauses of the request's filters
WhereBound(r, conds, values) ==
    \E keyOrder \in KeyOrders(r) :
        /\ getQueryClauses(r, keyOrder).outcome = "ok"
        /\ BoundConditions(conds, values) = getQueryClauses(r, keyOrder).clauses

\* the column list of an insert, in text order
InsertColumns(query) ==
    SplitText(Before(After(query, " ("), ") values "), ", ")

\* the placeholder of row i and column j of an insert stands for the value
\* the i-th row of the payload gives to that column, nil when it gives none
InsertBound(columns, values, rows) ==
    /\ Len(values) = Len(rows) * Len(columns)
    /\ \A i \in 1..Len(rows), j \in 1..Len(columns) :
           values[(i - 1) * Len(columns) + j]
             = IF columns[j] \in DOMAIN rows[i] THEN rows[i][columns[j]] ELSE NilV

\* placeholders and parameters of the statement in res correspond
Corresponds(r, op, query, values) ==
    /\ CountPlaceholders(query) = Len(values)
    /\ op = "Insert" => InsertBound(InsertColumns(query), values, r.Body.doc.rows)
    /\ op \in {"Update", "UpdateSingleEntry"}
          => /\ SetBound(SetItems(query), values, r.Body.doc.rows[1])
             /\ SetItems(query) # <<>>
             /\ WhereBound(r, Conditions(query),
                           SubSeq(values, Len(SetItems(query)) + 1, Len(values)))
    /\ op \in {"Select", "ExactCount", "Delete"}
          => WhereBound(r, Conditions(query), values)

\* C27 as stated: in every successfully compiled statement the number of
\* placeholders equals the number of parameters and each placeholder is
\* bound to its parameter; an update's SET values come first, in sorted
\* column order, then the WHERE values in the order of their clauses.
C27_EveryStatement ==
    StatementCompiled
    => Corresponds(res.req, res.op, res.out.Query, res.out.Values)

\* C27: the same of every successfully compiled statement of a request
\* whose identifiers hold no question mark.
C27_PlaceholdersBound ==
    (StatementCompiled /\ PlainIdentifiers(res.req))
    => Corresponds(res.req, res.op, res.out.Query, res.out.Values)

\* an update with a SET parameter and the parameters of two filters
C27_Witness ==
    /\ StatementCompiled
    /\ PlainIdentifiers(res.req)
    /\ res.op = "Update"
    /\ Len(Conditions(res.out.Query)) = 2
    /\ Len(res.out.Values) = 4
    /\ Corresponds(res.req, res.op, res.out.Query, res.out.Values)

(***************************************************************************)
(* Validation and execution in the table handlers.                         *)
(***************************************************************************)
TableHandlers ==
    {"handleQueryTableOrView", "handleInsertTable", "handleUpdateTable",
     "handleUpdateSingleEntity", "handleDeleteTable"}

\* the handler answered with an error of parsing or compiling the request,
\* not with one the engine returned
AnsweredParseError ==
    /\ run.pc = "done"
    /\ run.op \in TableHandlers
    /\ run.answer.kind = "error"
    /\ run.answer.err \notin EngineErrors

\* C28: when a table handler answers with an error of request parsing or
\* compilation, no SQL statement has been executed for that request.
C28_NothingExecuted == AnsweredParseError => run.log = <<>>

(***************************************************************************)
(* The rows and the total of a GET beside the writes of other connections. *)
(***************************************************************************)
\* handleQueryTableOrView has answered a request with `Prefer: count=exact`
\* with its rows and a total, whatever other connections wrote meanwhile
CountedAnswer ==
    /\ run.pc = "done"
    /\ run.op = "handleQueryTableOrView"
    /\ run.answer.kind = "data"
    /\ req.Prefer = "count=exact"
    /\ run.answer.ContentRange # ""

\* C30: with `Prefer: count=exact`, under any interleaving with the writes
\* of other requests on the table, the total of Content-Range is the number
\* of rows that matched the filters in the state of the database the
\* returned rows were read from.
C30_ConsistentSnapshot ==
    CountedAnswer
    => TotalOf(run.answer.ContentRange)
         = FormatInt(MatchCount(run.seen, FiltersOf(req)))

====
